---- MODULE Spec2Model ----
(***************************************************************************)
(* Coderzz.AI (src/output.py): the credential store, the per-user tenant   *)
(* stores, the bandit policy and the Streamlit session callbacks.          *)
(*                                                                         *)
(* Representation.  A text is a sequence of one-character strings.  A      *)
(* username is the sequence of its "/"-separated segments ("./alice" is    *)
(* <<".", "alice">>), which is what the file system sees of it.  A         *)
(* temperature is an integer number of tenths (0.7 is 7).  A bandit value  *)
(* is an integer number of 1/Scale units.  A SQLite file is a record of    *)
(* its tables; a table is a sequence of rows in rowid order.               *)
(***************************************************************************)
EXTENDS Integers, Sequences, FiniteSets, TLC

VARIABLES
    users,          \* user_db.sqlite, table users: username -> password column
    files,          \* user_databases/: resolved path -> SQLite file
    now,            \* the wall clock, in ticks
    session_state,  \* st.session_state of the one browser session
    last,           \* history: the last operation and what it returned
    reg_ok,         \* history: the <<username, password>> register_user accepted
    first_pw,       \* history: username -> the password its credential was made from
    expected,       \* history: username -> the sliders when logout was invoked
    bandit,         \* the last bandit call: its arguments, its result, the table
    steps,          \* history: how many callbacks and runs of main() have ended
    widgets,        \* the main page's widgets without a session key, and
                    \* whether st.rerun() has asked for a run not yet begun
    gateway,        \* the generation API: the requests it has received
    call            \* the call a run of main() waits in and the state the run
                    \* began in; the argument and result of a function called alone

vars == <<users, files, now, session_state, last, reg_ok, first_pw, expected, bandit,
          steps, widgets, gateway, call>>

----------------------------------------------------------------------------
(* Bounds of the model *)

MaxSteps == 4       \* at most MaxSteps callbacks and runs of main()
MaxClock == 2       \* the clock runs from 0 to MaxClock ticks
TicksPerSecond == 2 \* clock ticks in one second of a timestamp
MaxChat == 2        \* at most MaxChat generations are submitted per store
MaxUpdates == 2     \* at most MaxUpdates update_Q calls on one table
MaxResponse == 4    \* a response text has at most MaxResponse pieces
MaxProgram == 3     \* an executed source has at most MaxProgram statements

----------------------------------------------------------------------------
(* Texts *)

Rep(c, n) == [i \in 1..n |-> c]

Alice == <<"alice">>
DotAlice == <<".", "alice">>          \* "./alice"
ASlashB == <<"a", "b">>               \* "a/b"
Blank == <<"">>                       \* ""
Usernames == {Alice, DotAlice, ASlashB, Blank}

Secret1 == Rep("p", 6)
Secret2 == Rep("q", 6)
Passwords == {Secret1, Secret2}

Salts == {<<"x">>, <<"y">>}           \* what bcrypt.gensalt() may draw

Defaults == [temperature |-> 7, speed |-> 5, favorite_language |-> "python"]
Temperatures == {7, 9}                \* slider positions the session tries
Speeds == {5, 8}

----------------------------------------------------------------------------
(* The file system under the working directory *)

Directories == {<<"user_databases">>}     \* os.makedirs in init_db; no other

\* f"user_databases/{username}.sqlite", as segments
user_db_path(username) ==
    <<"user_databases">> \o
    [i \in 1..Len(username) |->
        IF i = Len(username) THEN username[i] \o ".sqlite" ELSE username[i]]

NoDots(path) == SelectSeq(path, LAMBDA seg : seg /= ".")

\* the file a path names: "." segments name the directory they stand in
Resolve(path) == NoDots(path)

\* a file can be opened or created only in a directory that exists
Openable(path) ==
    LET r == Resolve(path) IN SubSeq(r, 1, Len(r) - 1) \in Directories

Paths == {Resolve(user_db_path(u)) : u \in {v \in Usernames : Openable(user_db_path(v))}}

NoFile == [exists |-> FALSE, has_chat |-> FALSE, chat_history |-> <<>>,
           has_prefs |-> FALSE, user_preferences |-> <<>>]
EmptyFile == [NoFile EXCEPT !.exists = TRUE]

\* os.path.exists(user_db_path)
path_exists(fs, path) == Openable(path) /\ fs[Resolve(path)].exists

\* sqlite3.connect(path) followed by the first statement: creates the file
connect(fs, path) ==
    IF fs[Resolve(path)].exists THEN fs
    ELSE [fs EXCEPT ![Resolve(path)] = EmptyFile]

Faults == 0..4     \* which sqlite3 call of create_user_db raises; 0: none

create_user_db(fs, username, fault) ==
    LET path == user_db_path(username)
        p == Resolve(path)
        f1 == connect(fs, path)
        f2 == [f1 EXCEPT ![p].has_chat = TRUE]
        f3 == [f2 EXCEPT ![p].has_prefs = TRUE]
        row == [id |-> Len(f3[p].user_preferences) + 1,
                temperature |-> 7, speed |-> 5, favorite_language |-> "python"]
        f4 == [f3 EXCEPT ![p].user_preferences = Append(@, row)]
    IN  IF ~Openable(path) \/ fault = 1 THEN [files |-> fs, raised |-> TRUE]
        ELSE IF fault = 2 THEN [files |-> f1, raised |-> TRUE]
        ELSE IF fault = 3 THEN [files |-> f2, raised |-> TRUE]
        ELSE IF fault = 4 THEN [files |-> f3, raised |-> TRUE]
        ELSE [files |-> f4, raised |-> FALSE]

----------------------------------------------------------------------------
(* Passwords *)

BcryptPrefix == <<"$", "2", "b", "$">>

\* bcrypt's digest: a one-way function of salt and password, injective here
Digest(salt, password) == [i \in 1..Len(password) |-> salt[1] \o password[i]]

hashpw(password, salt) == BcryptPrefix \o salt \o Digest(salt, password)

\* bcrypt.checkpw: hash the password again with the salt the hash carries
checkpw(password, hashed) ==
    LET salt == <<hashed[Len(BcryptPrefix) + 1]>>
    IN  hashpw(password, salt) = hashed

hash_password(password, salt) == hashpw(password, salt)

verify_password(password, hashed_password) == checkpw(password, hashed_password)

----------------------------------------------------------------------------
(* Credential store *)

\* mutant of register_user: INSERT OR REPLACE, no IntegrityError
register_user_replace(us, fs, username, password, salt, fault) ==
    LET hashed_password == hash_password(password, salt)
        inserted == [u \in DOMAIN us \cup {username} |->
                        IF u = username THEN hashed_password ELSE us[u]]
    IN  IF username \in DOMAIN us
        THEN [users |-> inserted, files |-> fs, success |-> FALSE,
              message |-> "Username already exists."]
        ELSE IF create_user_db(fs, username, fault).raised
        THEN [users |-> inserted, files |-> create_user_db(fs, username, fault).files,
              success |-> FALSE, message |-> "Error"]
        ELSE [users |-> inserted, files |-> create_user_db(fs, username, fault).files,
              success |-> TRUE, message |-> "Registration successful!"]

\* returns the stores after the call, the pair it returns, and its outcome
register_user(us, fs, username, password, salt, fault) ==
    LET hashed_password == hash_password(password, salt)
        inserted == [u \in DOMAIN us \cup {username} |->
                        IF u = username THEN hashed_password ELSE us[u]]
        created == create_user_db(fs, username, fault)
    IN  IF username \in DOMAIN us
        THEN [users |-> us, files |-> fs, success |-> FALSE,
              message |-> "Username already exists."]
        ELSE IF created.raised
        THEN [users |-> inserted, files |-> created.files, success |-> FALSE,
              message |-> "Error"]
        ELSE [users |-> inserted, files |-> created.files, success |-> TRUE,
              message |-> "Registration successful!"]

\* mutant of authenticate_user: the password is not verified
authenticate_user_unverified(us, username, password) ==
    IF username \in DOMAIN us
    THEN [success |-> TRUE, message |-> "Login successful!"]
    ELSE [success |-> FALSE, message |-> "Username not found."]

authenticate_user(us, username, password) ==
    IF username \in DOMAIN us /\ verify_password(password, us[username])
    THEN [success |-> TRUE, message |-> "Login successful!"]
    ELSE IF username \in DOMAIN us
    THEN [success |-> FALSE, message |-> "Incorrect password."]
    ELSE [success |-> FALSE, message |-> "Username not found."]

----------------------------------------------------------------------------
(* Tenant stores *)

ChatLimit == 10

\* datetime.now().strftime("%Y-%m-%d %H:%M:%S")
strftime(t) == t \div TicksPerSecond

save_chat_history(fs, username, t, user_input, generated_code) ==
    LET path == user_db_path(username)
        p == Resolve(path)
        f1 == connect(fs, path)
        row == [timestamp |-> strftime(t), user_input |-> user_input,
                generated_code |-> generated_code]
    IN  IF ~Openable(path) THEN [files |-> fs, raised |-> TRUE]
        ELSE IF ~f1[p].has_chat THEN [files |-> f1, raised |-> TRUE]
        ELSE [files |-> [f1 EXCEPT ![p].chat_history = Append(@, row)],
              raised |-> FALSE]

\* ORDER BY timestamp DESC: SQLite's sorter keeps rows of equal key in rowid order
RECURSIVE InsertDesc(_, _)
InsertDesc(sorted, row) ==
    IF sorted = <<>> THEN <<row>>
    ELSE IF Head(sorted).timestamp >= row.timestamp
    THEN <<Head(sorted)>> \o InsertDesc(Tail(sorted), row)
    ELSE <<row>> \o sorted

RECURSIVE OrderByTimestampDesc(_)
OrderByTimestampDesc(rows) ==
    IF rows = <<>> THEN <<>>
    ELSE InsertDesc(OrderByTimestampDesc(SubSeq(rows, 1, Len(rows) - 1)),
                    rows[Len(rows)])

Limit(rows, n) == SubSeq(rows, 1, IF Len(rows) < n THEN Len(rows) ELSE n)

load_chat_history(fs, username) ==
    LET path == user_db_path(username)
        p == Resolve(path)
    IN  IF ~path_exists(fs, path) THEN [history |-> <<>>, raised |-> FALSE]
        ELSE IF ~fs[p].has_chat THEN [history |-> <<>>, raised |-> TRUE]
        ELSE [history |-> Limit(OrderByTimestampDesc(fs[p].chat_history), ChatLimit),
              raised |-> FALSE]

get_user_preferences(fs, username) ==
    LET path == user_db_path(username)
        p == Resolve(path)
        result == fs[p].user_preferences
    IN  IF ~path_exists(fs, path) THEN [preferences |-> Defaults, raised |-> FALSE]
        ELSE IF ~fs[p].has_prefs THEN [preferences |-> Defaults, raised |-> TRUE]
        ELSE IF result /= <<>>
        THEN [preferences |-> [temperature |-> result[1].temperature,
                               speed |-> result[1].speed,
                               favorite_language |-> result[1].favorite_language],
              raised |-> FALSE]
        ELSE [preferences |-> Defaults, raised |-> FALSE]

update_user_preferences(fs, username, preferences) ==
    LET path == user_db_path(username)
        p == Resolve(path)
        f1 == connect(fs, path)
        updated == [i \in 1..Len(f1[p].user_preferences) |->
                      IF f1[p].user_preferences[i].id = 1
                      THEN [id |-> 1, temperature |-> preferences.temperature,
                            speed |-> preferences.speed,
                            favorite_language |-> preferences.favorite_language]
                      ELSE f1[p].user_preferences[i]]
    IN  IF ~Openable(path) THEN [files |-> fs, raised |-> TRUE]
        ELSE IF ~f1[p].has_prefs THEN [files |-> f1, raised |-> TRUE]
        ELSE [files |-> [f1 EXCEPT ![p].user_preferences = updated],
              raised |-> FALSE]

----------------------------------------------------------------------------
(* Bandit policy *)

\* the prompt templates, each as the text before and after its {}
actions ==
    << <<"Generate basic code for: ", "">>,
       <<"Generate structured code with functions and error handling for: ", "">>,
       <<"Generate code for: ", " and add detailed comments for clarity">>,
       <<"Generate optimized code for: ", "">> >>

num_actions == Len(actions)

\* range(num_actions); the template of arm i is actions[i + 1]
Arms == 0..(num_actions - 1)

\* template.format(user_input)
format(template, user_input) == template[1] \o user_input \o template[2]

Scale == 100 ^ MaxUpdates         \* a value v stands for v / Scale

initialize_q_table == [i \in Arms |-> 0]

Max(Q_table) == CHOOSE m \in {Q_table[i] : i \in Arms} : \A i \in Arms : Q_table[i] <= m

\* mutant of argmax: the last index holding the maximum
argmax_last(Q_table) == CHOOSE i \in Arms :
    /\ Q_table[i] = Max(Q_table)
    /\ \A j \in Arms : Q_table[j] = Max(Q_table) => j <= i

\* np.argmax: the first index holding the maximum
argmax(Q_table) == CHOOSE i \in Arms :
    /\ Q_table[i] = Max(Q_table)
    /\ \A j \in Arms : Q_table[j] = Max(Q_table) => i <= j

\* mutant of get_action: random.choice over one index too many
get_action_past_end(Q_table, epsilon, draw, pick) ==
    IF draw < epsilon THEN pick + 1 ELSE argmax(Q_table)

\* epsilon and the uniform draw in tenths; pick is random.choice's result
get_action(Q_table, epsilon, draw, pick) ==
    IF draw < epsilon THEN pick ELSE argmax(Q_table)

\* mutant of update_Q: best_next is read after the entry is overwritten
update_Q_max_after(Q_table, action_idx, reward) ==
    LET first == [Q_table EXCEPT ![action_idx] = @ + (reward * Scale - @) \div 10]
    IN  [first EXCEPT ![action_idx] = @ + ((9 * Max(first)) \div 10) \div 10]

\* learning_rate = 0.1, discount_factor = 0.9.  Each update needs two more
\* decimal places than the table has: the divisions are exact, and the result
\* is the code's, on a table whose entries are multiples of 100; the
\* specifications apply it to such tables only
update_Q(Q_table, action_idx, reward) ==
    LET best_next == Max(Q_table)
        target == reward * Scale + (9 * best_next) \div 10
    IN  [Q_table EXCEPT ![action_idx] = @ + (target - @) \div 10]

----------------------------------------------------------------------------
(* Response parsing.  A response is a sequence of pieces of text; the fence and
   the white space " " are pieces of their own, and "fence" stands for the
   marker of three backquotes that opens and closes a code block. *)

Fence == "fence"

RECURSIVE lstrip(_)
lstrip(text) ==
    IF text /= <<>> /\ Head(text) = " " THEN lstrip(Tail(text)) ELSE text

RECURSIVE rstrip(_)
rstrip(text) ==
    IF text /= <<>> /\ text[Len(text)] = " "
    THEN rstrip(SubSeq(text, 1, Len(text) - 1)) ELSE text

strip(text) == rstrip(lstrip(text))

\* text.split(Fence): the stretches between the fences
RECURSIVE split(_)
split(text) ==
    IF \A i \in 1..Len(text) : text[i] /= Fence THEN <<text>>
    ELSE LET i == CHOOSE i \in 1..Len(text) :
                     text[i] = Fence /\ \A j \in 1..(i - 1) : text[j] /= Fence
         IN  <<SubSeq(text, 1, i - 1)>> \o split(SubSeq(text, i + 1, Len(text)))

\* mutant of extract_code: the fences are dropped
extract_code_bare(response) ==
    LET generated_code == strip(response)
    IN  IF \E i \in 1..Len(generated_code) : generated_code[i] = Fence
        THEN split(generated_code)[2]
        ELSE generated_code

\* what display_main_app keeps of a 200 response
extract_code(response) ==
    LET generated_code == strip(response)
    IN  IF \E i \in 1..Len(generated_code) : generated_code[i] = Fence
        THEN <<Fence>> \o split(generated_code)[2] \o <<Fence>>
        ELSE generated_code

----------------------------------------------------------------------------
(* Code execution.  A source is a sequence of statements: print(arg),
   sys.stderr.write(arg), raise cls(arg), or a statement that does not
   compile.  stdout and stderr are the sequences of the texts written. *)

Exceptions == {"ValueError", "SyntaxError"}      \* subclasses of Exception
BaseExceptions == Exceptions \cup {"SystemExit"} \* SystemExit is not one

Statement(kind, cls, arg) == [kind |-> kind, cls |-> cls, arg |-> arg]

NotRaised == ""

\* the statements from the i-th on, run with what has been written so far
RECURSIVE run(_, _, _, _)
run(code, i, stdout, stderr) ==
    IF i > Len(code)
    THEN [stdout |-> stdout, stderr |-> stderr, raised |-> NotRaised, message |-> ""]
    ELSE IF code[i].kind = "print"
    THEN run(code, i + 1, Append(stdout, code[i].arg), stderr)
    ELSE IF code[i].kind = "write"
    THEN run(code, i + 1, stdout, Append(stderr, code[i].arg))
    ELSE [stdout |-> stdout, stderr |-> stderr,
          raised |-> code[i].cls, message |-> code[i].arg]

\* exec(code_to_execute, {}, local_namespace): compiles the whole source,
\* then runs it
exec(code_to_execute) ==
    IF \E i \in 1..Len(code_to_execute) : code_to_execute[i].kind = "syntax"
    THEN LET i == CHOOSE i \in 1..Len(code_to_execute) :
                     /\ code_to_execute[i].kind = "syntax"
                     /\ \A j \in 1..(i - 1) : code_to_execute[j].kind /= "syntax"
         IN  [stdout |-> <<>>, stderr |-> <<>>, raised |-> "SyntaxError",
              message |-> code_to_execute[i].arg]
    ELSE run(code_to_execute, 1, <<>>, <<>>)

\* propagated: the exception that leaves the function instead of a result
execute_python_code(code_to_execute) ==
    LET r == exec(code_to_execute)
    IN  IF r.raised = NotRaised
        THEN [stdout_output |-> r.stdout, stderr_output |-> r.stderr,
              execution_successful |-> TRUE, propagated |-> NotRaised]
        ELSE IF r.raised \in Exceptions
        THEN [stdout_output |-> r.stdout,
              stderr_output |-> Append(r.stderr, "Error: " \o r.message),
              execution_successful |-> FALSE, propagated |-> NotRaised]
        ELSE [stdout_output |-> <<>>, stderr_output |-> <<>>,
              execution_successful |-> FALSE, propagated |-> r.raised]

----------------------------------------------------------------------------
(* Session state *)

init_session_state ==
    [chat_history |-> <<>>, generated_code |-> <<>>, temperature |-> 7,
     speed |-> 5, feedback_submitted |-> FALSE, feedback_score |-> 0,
     last_action_idx |-> 0, code_language |-> "python",
     authenticated |-> FALSE, username |-> Blank, login_error |-> "",
     register_error |-> "", session_id |-> "uuid4",
     user_input_buffer |-> "", selected_optimization |-> "None",
     recognized_text |-> "", input_text_buffer |-> "",
     should_update_textarea |-> FALSE, dark_mode |-> TRUE, auto_submit |-> FALSE,
     python_clicked |-> FALSE, javascript_clicked |-> FALSE,
     java_clicked |-> FALSE, cpp_clicked |-> FALSE, needs_rerun |-> FALSE,
     Q_table |-> initialize_q_table]

\* the two messages the session shows for one request
Messages(timestamp, user_input, generated_code) ==
    << [who |-> "You", timestamp |-> timestamp, text |-> user_input],
       [who |-> "Coderzz.AI", timestamp |-> timestamp, text |-> generated_code] >>

RECURSIVE HistoryMessages(_)
HistoryMessages(history) ==
    IF history = <<>> THEN <<>>
    ELSE Messages(Head(history).timestamp, Head(history).user_input,
                  Head(history).generated_code) \o HistoryMessages(Tail(history))

NoExpect == [set |-> FALSE, temperature |-> 0, speed |-> 0, favorite_language |-> ""]

Event(op, user, password, result) ==
    [op |-> op, user |-> user, password |-> password, result |-> result]

Inputs == {"add", "sort"}         \* what the user types
\* the texts the generation API answers with
Responses == {<<"Sure:", "fence", "x = 1", "fence", " ">>}
Outcomes == {"200", "500", "exception"}
Epsilon == 1                      \* get_action's default epsilon, 0.1
Draws == {0, 5}                   \* random.uniform(0, 1), in tenths

----------------------------------------------------------------------------
(* Initial state: after main() has run init_db and init_session_state *)

\* the table Q, and the last call on it: its arguments, the table before it
\* and the arm it returned; n counts the updates, and applied is the sum of
\* the rewards the feedback buttons have passed to update_Q since the session
\* started or last logged out
NoBandit == [op |-> "none", Q |-> initialize_q_table, before |-> initialize_q_table,
             c |-> 0, r |-> 0, epsilon |-> 0, out |-> 0, n |-> 0, applied |-> 0]

\* st.radio's first option; no file in the uploaders; metric is the number
\* that st.metric("Feedback Score", ...) has drawn on the screen
init_widgets == [input_method |-> "Text", uploaded |-> "", rerun |-> FALSE,
                 metric |-> 0]

\* no request has reached the API.  arm, user_input and prompt are those of
\* the last request received, artifact_arm the arm of the last prompt
\* answered with 200
NoRequest == [requests |-> 0, arm |-> 0, user_input |-> "", prompt |-> "",
              artifact_arm |-> 0]

NoCall == [op |-> "none", arg |-> <<>>, out |-> <<>>]

Init ==
    /\ users = <<>>
    /\ files = [p \in Paths |-> NoFile]
    /\ now = 0
    /\ session_state = init_session_state
    /\ last = Event("init", Blank, <<>>, "")
    /\ reg_ok = {}
    /\ first_pw = <<>>
    /\ expected = [u \in Usernames |-> NoExpect]
    /\ bandit = NoBandit
    /\ steps = 0
    /\ widgets = init_widgets
    /\ gateway = NoRequest
    /\ call = NoCall

\* one more callback or run of main() has ended, within the bound of the model
Step == steps < MaxSteps /\ steps' = steps + 1

----------------------------------------------------------------------------
(* Callbacks of the authentication page *)

login_callback(username, password) ==
    LET auth == authenticate_user(users, username, password)
        s1 == [session_state EXCEPT !.authenticated = TRUE,
                                    !.username = username,
                                    !.login_error = ""]
        got == get_user_preferences(files, username)
        s2 == [s1 EXCEPT !.temperature = got.preferences.temperature,
                         !.speed = got.preferences.speed,
                         !.code_language = got.preferences.favorite_language]
        loaded == load_chat_history(files, username)
        s3 == [s2 EXCEPT !.chat_history = HistoryMessages(loaded.history)]
    IN  /\ Step
        /\ ~session_state.authenticated
        /\ IF ~auth.success
           THEN /\ session_state' = [session_state EXCEPT !.login_error = auth.message]
                /\ last' = Event("login", username, password, auth.message)
           ELSE IF got.raised
           THEN /\ session_state' = s1
                /\ last' = Event("login", username, password, "exception")
           ELSE IF loaded.raised
           THEN /\ session_state' = s2
                /\ last' = Event("login", username, password, "exception")
           ELSE /\ session_state' = s3
                /\ last' = Event("login", username, password, auth.message)
        /\ UNCHANGED <<users, files, now, reg_ok, first_pw, expected, bandit, widgets, gateway, call>>

\* mutant of register_callback: the password is not checked against its
\* confirmation nor for its length
register_callback_unchecked(username, password, confirm_password, salt, fault) ==
    LET r == register_user(users, files, username, password, salt, fault)
    IN  /\ Step
        /\ ~session_state.authenticated
        /\ users' = r.users
        /\ files' = r.files
        /\ reg_ok' = IF r.success THEN reg_ok \cup {<<username, password>>}
                     ELSE reg_ok
        /\ first_pw' = IF username \in DOMAIN users THEN first_pw
                       ELSE [u \in DOMAIN users \cup {username} |->
                                IF u = username THEN password ELSE first_pw[u]]
        /\ session_state' =
             IF r.success
             THEN [session_state EXCEPT !.authenticated = TRUE,
                                        !.username = username,
                                        !.register_error = ""]
             ELSE [session_state EXCEPT !.register_error = r.message]
        /\ last' = Event("register", username, password, r.message)
        /\ UNCHANGED <<now, expected, bandit, widgets, gateway, call>>

register_callback(username, password, confirm_password, salt, fault) ==
    LET r == register_user(users, files, username, password, salt, fault)
    IN  /\ Step
        /\ ~session_state.authenticated
        /\ IF password /= confirm_password
           THEN /\ session_state' =
                     [session_state EXCEPT !.register_error = "Passwords do not match."]
                /\ last' = Event("register", username, password, "Passwords do not match.")
                /\ UNCHANGED <<users, files, reg_ok, first_pw>>
           ELSE IF Len(password) < 6
           THEN /\ session_state' =
                     [session_state EXCEPT !.register_error =
                         "Password must be at least 6 characters long."]
                /\ last' = Event("register", username, password,
                                 "Password must be at least 6 characters long.")
                /\ UNCHANGED <<users, files, reg_ok, first_pw>>
           ELSE /\ users' = r.users
                /\ files' = r.files
                /\ reg_ok' = IF r.success THEN reg_ok \cup {<<username, password>>}
                             ELSE reg_ok
                /\ first_pw' = IF username \in DOMAIN users THEN first_pw
                               ELSE [u \in DOMAIN users \cup {username} |->
                                        IF u = username THEN password ELSE first_pw[u]]
                /\ session_state' =
                     IF r.success
                     THEN [session_state EXCEPT !.authenticated = TRUE,
                                                !.username = username,
                                                !.register_error = ""]
                     ELSE [session_state EXCEPT !.register_error = r.message]
                /\ last' = Event("register", username, password, r.message)
        /\ UNCHANGED <<now, expected, bandit, widgets, gateway, call>>

----------------------------------------------------------------------------
(* Callbacks and widgets of the main page *)

logout_callback ==
    LET preferences == [temperature |-> session_state.temperature,
                        speed |-> session_state.speed,
                        favorite_language |-> session_state.code_language]
        saved == update_user_preferences(files, session_state.username, preferences)
        reset == [init_session_state EXCEPT !.session_id = session_state.session_id]
    IN  /\ Step
        /\ session_state.authenticated
        /\ call.op = "none"
        /\ expected' = [expected EXCEPT ![session_state.username] =
                           [set |-> TRUE, temperature |-> preferences.temperature,
                            speed |-> preferences.speed,
                            favorite_language |-> preferences.favorite_language]]
        /\ IF session_state.authenticated /\ session_state.username /= Blank
           THEN /\ files' = saved.files
                /\ IF saved.raised
                   THEN /\ session_state' = session_state
                        /\ last' = Event("logout", session_state.username, <<>>, "exception")
                   ELSE /\ session_state' = reset
                        /\ last' = Event("logout", session_state.username, <<>>, "")
           ELSE /\ files' = files
                /\ session_state' = reset
                /\ last' = Event("logout", session_state.username, <<>>, "")
        /\ widgets' = IF session_state.username /= Blank /\ saved.raised
                      THEN widgets ELSE init_widgets
        /\ bandit' = IF session_state.username /= Blank /\ saved.raised
                     THEN bandit ELSE [bandit EXCEPT !.applied = 0]
        /\ UNCHANGED <<users, now, reg_ok, first_pw, gateway, call>>

InputMethods == {"Text", "Voice", "Image", "Document"}
Uploaders == {"Image", "Document"}
Categories == {"Poor", "Neutral", "Good", "Excellent"}

\* clock ticks between the two readings of the clock that follow a 200
\* answer: datetime.now() of the submit block, for the messages, and
\* datetime.now() of save_chat_history, for the stored row
Lags == {0, 1}

\* the second reading is made after a 200 answer only
LagsOf(outcome) == IF outcome = "200" THEN Lags ELSE {0}

\* the draws of get_action in the submit block of one run: random.uniform's
\* and, below epsilon only, random.choice's
Envs ==
    UNION {{[draw |-> d, pick |-> k] : k \in (IF d < Epsilon THEN Arms ELSE {0})} :
           d \in Draws}
NoEnv == [draw |-> Epsilon, pick |-> 0]

\* what requests.post returns with, and the time that passes between the
\* readings of the clock that follow it
Answers ==
    UNION {{[outcome |-> o, response |-> a, ticks |-> n] :
               a \in Responses, n \in LagsOf(o)} :
           o \in Outcomes}

\* mutant of update_input_buffer: the text waits for a submit
update_input_buffer_waiting(s, text, prefix) ==
    IF text /= ""
    THEN [s EXCEPT !.input_text_buffer = prefix \o text,
                   !.should_update_textarea = TRUE,
                   !.needs_rerun = TRUE]
    ELSE s

update_input_buffer(s, text, prefix) ==
    IF text /= ""
    THEN [s EXCEPT !.input_text_buffer = prefix \o text,
                   !.should_update_textarea = TRUE,
                   !.needs_rerun = TRUE,
                   !.auto_submit = TRUE]
    ELSE s

\* the input section: recognized is what recognize_speech returns, w.uploaded
\* what process_image or process_document reads from the uploaded file
input_section(s, w, click, recognized) ==
    IF w.input_method = "Text" THEN [s EXCEPT !.should_update_textarea = FALSE]
    ELSE IF w.input_method = "Voice"
    THEN IF click = "voice"
         THEN update_input_buffer(s, recognized, "Generate code for: ")
         ELSE s
    ELSE update_input_buffer(s, w.uploaded, "")

\* the request of the submit block
user_input_of(s, w, text_input) ==
    IF w.input_method = "Text" /\ text_input /= "" THEN text_input
    ELSE s.input_text_buffer

\* the submit block up to requests.post: the flag is taken down, the arm is
\* chosen and recorded, the prompt is made from the arm's template, and the
\* request leaves (sent) when there is a prompt.  actions[action_idx] raises
\* IndexError for an index that is not one of a template
submit_request(s, gw, w, click, text_input, env) ==
    LET s0 == [s EXCEPT !.auto_submit = FALSE]
        user_input == user_input_of(s, w, text_input)
        action_idx == get_action(s.Q_table, Epsilon, env.draw, env.pick)
    IN  IF ~(click = "generate" \/ s.auto_submit)
        THEN [session |-> s, gateway |-> gw, sent |-> FALSE, raised |-> FALSE,
              user_input |-> ""]
        ELSE IF user_input = ""
        THEN [session |-> s0, gateway |-> gw, sent |-> FALSE, raised |-> FALSE,
              user_input |-> ""]
        ELSE IF action_idx + 1 \notin DOMAIN actions
        THEN [session |-> [s0 EXCEPT !.last_action_idx = action_idx],
              gateway |-> gw, sent |-> FALSE, raised |-> TRUE,
              user_input |-> user_input]
        ELSE [session |-> [s0 EXCEPT !.last_action_idx = action_idx],
              gateway |-> [gw EXCEPT !.requests = @ + 1, !.arm = action_idx,
                                     !.user_input = user_input,
                                     !.prompt = format(actions[action_idx + 1],
                                                       user_input)],
              sent |-> TRUE, raised |-> FALSE, user_input |-> user_input]

\* the submit block from the return of requests.post on, in the session s,
\* the files fs and at the time t of that moment: a 200 answer is parsed,
\* shown with the time t that the block reads, and saved with the time that
\* save_chat_history reads, env.ticks later.  clock is the time at the end of
\* the block
submit_answer(s, fs, gw, t, user_input, env) ==
    LET generated_code == extract_code(env.response)
        timestamp == strftime(t)
        s2 == [s EXCEPT !.generated_code = generated_code,
                        !.chat_history =
                            @ \o Messages(timestamp, user_input, generated_code)]
        saved == save_chat_history(fs, s.username, t + env.ticks, user_input,
                                   generated_code)
    IN  IF env.outcome = "200"
        THEN [session |-> [s2 EXCEPT !.needs_rerun = TRUE],
              files |-> saved.files,
              gateway |-> [gw EXCEPT !.artifact_arm = gw.arm],
              result |-> IF saved.raised THEN "save raised" ELSE "200",
              clock |-> t + env.ticks]
        ELSE [session |-> [s EXCEPT !.needs_rerun = TRUE], files |-> fs,
              gateway |-> gw, result |-> env.outcome, clock |-> t]

\* the submit block of a run that sends no request
submit_nothing(s, fs, gw, t) ==
    [session |-> s, files |-> fs, gateway |-> gw, result |-> "", clock |-> t]

DisplayLimit == 10

\* the chat container of the sidebar:
\* for message in reversed(st.session_state.chat_history[-10:])
chat_container(chat_history) ==
    LET n == Len(chat_history)
        shown == SubSeq(chat_history,
                        IF n > DisplayLimit THEN n - DisplayLimit + 1 ELSE 1, n)
    IN  [i \in 1..Len(shown) |-> shown[Len(shown) + 1 - i]]

\* mutant of Reward: Excellent counts as Good
Reward_capped(category) ==
    CASE category = "Poor" -> -1
      [] category = "Neutral" -> 0
      [] category = "Good" -> 1
      [] category = "Excellent" -> 1

\* the reward each feedback button passes to update_Q
Reward(category) ==
    CASE category = "Poor" -> -1
      [] category = "Neutral" -> 0
      [] category = "Good" -> 1
      [] category = "Excellent" -> 2

\* what each feedback button adds to feedback_score (Neutral leaves it alone)
Score(category) ==
    CASE category = "Poor" -> -1
      [] category = "Neutral" -> 0
      [] category = "Good" -> 1
      [] category = "Excellent" -> 2

\* the results section: shown when there is generated code
feedback_section(s, click) ==
    IF s.generated_code /= <<>> /\ click \in Categories
    THEN [s EXCEPT !.feedback_score = @ + Score(click),
                   !.Q_table = update_Q(@, s.last_action_idx, Reward(click)),
                   !.feedback_submitted = TRUE]
    ELSE s

\* the sidebar: the "Clear History" button.  click is the button clicked in
\* the browser ("none": a slider, the radio, an uploader, or a rerun)
sidebar_section(s, click) ==
    IF click = "clear"
    THEN [s EXCEPT !.chat_history = <<>>, !.needs_rerun = TRUE]
    ELSE s

\* the end of main(): the rerun flag is taken down and st.rerun() is called
end_of_main(submitted, results, click) ==
    [session |-> [results EXCEPT !.needs_rerun = FALSE],
     files |-> submitted.files,
     gateway |-> submitted.gateway,
     result |-> submitted.result,
     clock |-> submitted.clock,
     rerun |-> results.needs_rerun,
     updated |-> submitted.session.generated_code /= <<>> /\ click \in Categories]

results_section(submitted, click) ==
    end_of_main(submitted, feedback_section(submitted.session, click), click)

\* does a run send a request to the API
Requests(s, w, click, text_input, recognized) ==
    LET input == input_section(s, w, click, recognized)
    IN  /\ click = "generate" \/ input.auto_submit
        /\ user_input_of(input, w, text_input) /= ""

\* may one more request be submitted within the bounds of the model
WithinChatBound ==
    /\ Len(session_state.chat_history) < 2 * MaxChat
    /\ Openable(user_db_path(session_state.username)) =>
          Len(files[Resolve(user_db_path(session_state.username))].chat_history) < MaxChat

\* the draws that the run of a step may make
EnvsOf(w, click, text_input, recognized) ==
    IF Requests(session_state, w, click, text_input, recognized) THEN Envs ELSE {NoEnv}

\* the state in which a run of main() begins
Beginning == [session_state |-> session_state, files |-> files, gateway |-> gateway]

\* a run of main() waits in the call op: event names the browser event that
\* began it, in the state start, click its button and user_input the prompt
\* it has sent
Waiting(op, event, click, user_input, start) ==
    [op |-> op,
     arg |-> [event |-> event, click |-> click, user_input |-> user_input,
              start |-> start],
     out |-> <<>>]

\* the run goes on from the submit block's end, submitted, to the end of
\* main(): the results section with its feedback buttons, and st.rerun()
\* when the run has asked for it
run_ends(event, submitted, w, click) ==
    LET r == results_section(submitted, click)
    IN  /\ session_state' = r.session
        /\ files' = r.files
        /\ gateway' = r.gateway
        /\ now' = r.clock
        /\ widgets' = [w EXCEPT !.rerun = r.rerun]
        /\ bandit' = IF r.updated
                     THEN [bandit EXCEPT !.op = "update_Q",
                                         !.before = submitted.session.Q_table,
                                         !.Q = r.session.Q_table,
                                         !.c = r.session.last_action_idx,
                                         !.r = Reward(click),
                                         !.n = @ + 1,
                                         !.applied = @ + Reward(click)]
                     ELSE bandit
        /\ last' = Event(event, r.session.username, <<>>,
                         IF click \in Categories THEN click ELSE r.result)
        /\ call' = [op |-> "none", arg |-> <<>>, out |-> <<>>]
        /\ Step
        /\ UNCHANGED <<users, reg_ok, first_pw, expected>>

\* the run goes on from the submit block, in the session s: it sends its
\* request and waits in requests.post, or it has none to send and ends; an
\* exception that the submit block raises ends the run where it is
run_submits(event, start, s, w, click, text_input, env) ==
    LET request == submit_request(s, gateway, w, click, text_input, env)
    IN  IF request.raised
        THEN /\ session_state' = request.session
             /\ widgets' = [w EXCEPT !.rerun = FALSE]
             /\ last' = Event(event, request.session.username, <<>>, "exception")
             /\ call' = [op |-> "none", arg |-> <<>>, out |-> <<>>]
             /\ Step
             /\ UNCHANGED <<users, files, now, reg_ok, first_pw, expected, bandit,
                            gateway>>
        ELSE IF request.sent
        THEN /\ session_state' = request.session
             /\ gateway' = request.gateway
             /\ widgets' = [w EXCEPT !.rerun = FALSE]
             /\ call' = Waiting("requests.post", event, click, request.user_input,
                                start)
             /\ UNCHANGED <<users, files, now, last, reg_ok, first_pw, expected,
                            bandit, steps>>
        ELSE run_ends(event, submit_nothing(request.session, files, gateway, now),
                      w, click)

\* a browser event of the main page and the run of main() it begins, with
\* the session s and the widgets w as the event leaves them.  The run ends
\* in the same step unless it calls recognize_speech or requests.post: then
\* it waits, with what it has written so far, and goes on in a step of its
\* own when the call returns.  The user's next action comes when the run has
\* ended; it may come before the run that st.rerun() starts, and then its
\* run takes that one's place.  The sidebar, drawn first, shows the feedback
\* score of that moment: the feedback buttons come after it and ask for no
\* rerun.
main_page(event, s, w, click, text_input, env) ==
    /\ session_state.authenticated
    /\ call.op = "none"
    /\ steps < MaxSteps
    /\ Requests(s, w, click, text_input, "") => WithinChatBound
    /\ click \in Categories => bandit.n < MaxUpdates
    /\ LET shown == [w EXCEPT !.metric = s.feedback_score]
       IN  IF w.input_method = "Voice" /\ click = "voice"
           THEN /\ session_state' = sidebar_section(s, click)
                /\ widgets' = [shown EXCEPT !.rerun = FALSE]
                /\ call' = Waiting("recognize_speech", event, click, "", Beginning)
                /\ UNCHANGED <<users, files, now, last, reg_ok, first_pw, expected,
                               bandit, steps, gateway>>
           ELSE run_submits(event, Beginning,
                            input_section(sidebar_section(s, click), w, click, ""),
                            shown, click, text_input, env)

\* recognize_speech returns what it has heard ("": nothing, or an error), the
\* input section puts it into the buffer and the run goes on
recognize_speech(text, env) ==
    /\ call.op = "recognize_speech"
    /\ Requests(session_state, widgets, call.arg.click, "", text) => WithinChatBound
    /\ run_submits(call.arg.event, call.arg.start,
                   input_section(session_state, widgets, call.arg.click, text),
                   widgets, call.arg.click, "", env)

\* requests.post returns, or raises: the run goes on with the session, the
\* files and the clock as they are by then
requests_post(env) ==
    /\ call.op = "requests.post"
    /\ now + env.ticks <= MaxClock
    /\ run_ends(call.arg.event,
                submit_answer(session_state, files, gateway, now,
                              call.arg.user_input, env),
                widgets, call.arg.click)

\* st.slider(..., key="temperature")
set_temperature(t, env) ==
    main_page("slider", [session_state EXCEPT !.temperature = t], widgets,
              "none", "", env)

\* st.slider(..., key="speed")
set_speed(sp, env) ==
    main_page("slider", [session_state EXCEPT !.speed = sp], widgets,
              "none", "", env)

\* the "Clear History" button
clear_history(env) ==
    main_page("clear", session_state, widgets, "clear", "", env)

\* the "Generate Code" button, with user_input in the text area
generate_code(user_input, draw, pick) ==
    /\ widgets.input_method = "Text"
    /\ main_page("generate", session_state, widgets, "generate", user_input,
                 [draw |-> draw, pick |-> pick])

\* the "Generate Code" button under another input method: the buffer is sent
generate_from_buffer(env) ==
    /\ widgets.input_method /= "Text"
    /\ main_page("generate", session_state, widgets, "generate", "", env)

\* a feedback button; they are shown when there is generated code
submit_feedback(category, env) ==
    /\ session_state.generated_code /= <<>>
    /\ main_page("feedback", session_state, widgets, category, "", env)

\* the radio: the uploaders are shown under their own method only, and a
\* widget that is not shown loses its value
set_input_method(method, env) ==
    /\ method /= widgets.input_method
    /\ main_page("method", session_state,
                 [widgets EXCEPT !.input_method = method, !.uploaded = ""],
                 "none", "", env)

\* the "Start Voice Recognition" button: the run listens to the microphone
voice_input ==
    /\ widgets.input_method = "Voice"
    /\ main_page("voice", session_state, widgets, "voice", "", NoEnv)

\* a file is put in the uploader, or taken out (text = "")
upload(text, env) ==
    /\ widgets.input_method \in Uploaders
    /\ text /= widgets.uploaded
    /\ main_page("upload", session_state, [widgets EXCEPT !.uploaded = text],
                 "none", "", env)

\* the run that st.rerun() starts
rerun(env) ==
    /\ widgets.rerun
    /\ main_page("rerun", session_state, widgets, "none", "", env)

\* time passes, also while a run waits for a call to return
Tick ==
    /\ now < MaxClock
    /\ now' = now + 1
    /\ UNCHANGED <<users, files, session_state, last, reg_ok, first_pw, expected, bandit, steps,
                 widgets, gateway, call>>

----------------------------------------------------------------------------
(* The bandit functions called alone, on tables drawn from InitTables *)

\* mutant of Rewards: a fifth button worth 3
Rewards_wider == {-1, 0, 1, 2, 3}

Rewards == {-1, 0, 1, 2}          \* Poor, Neutral, Good, Excellent
Epsilons == {0, 1, 10}            \* 0, 0.1, 1
UniformDraws == {0, 5, 10}        \* random.uniform(0, 1) includes both ends

InitTables ==
    {[i \in Arms |-> IF i = k THEN x * Scale ELSE 0] : k \in {0, 2}, x \in {-1, 0, 1}}

BanditInit ==
    /\ users = <<>>
    /\ files = [p \in Paths |-> NoFile]
    /\ now = 0
    /\ session_state = init_session_state
    /\ last = Event("init", Blank, <<>>, "")
    /\ reg_ok = {}
    /\ first_pw = <<>>
    /\ expected = [u \in Usernames |-> NoExpect]
    /\ bandit \in {[NoBandit EXCEPT !.Q = t, !.before = t] : t \in InitTables}
    /\ steps = 0
    /\ widgets = init_widgets
    /\ gateway = NoRequest
    /\ call = NoCall

call_get_action(epsilon, draw, pick) ==
    /\ bandit.op /= "get_action"
    /\ bandit' = [bandit EXCEPT !.op = "get_action", !.before = bandit.Q,
                                !.epsilon = epsilon,
                                !.out = get_action(bandit.Q, epsilon, draw, pick)]
    /\ UNCHANGED <<users, files, now, session_state, last, reg_ok, first_pw, expected, steps,
                 widgets, gateway, call>>

call_update_Q(action_idx, reward) ==
    /\ bandit.n < MaxUpdates
    /\ bandit' = [bandit EXCEPT !.op = "update_Q", !.before = bandit.Q,
                                !.c = action_idx, !.r = reward,
                                !.Q = update_Q(bandit.Q, action_idx, reward),
                                !.n = @ + 1]
    /\ UNCHANGED <<users, files, now, session_state, last, reg_ok, first_pw, expected, steps,
                 widgets, gateway, call>>

BanditNext ==
    \/ \E e \in Epsilons, d \in UniformDraws :
          \E k \in (IF d < e THEN Arms ELSE {0}) : call_get_action(e, d, k)
    \/ \E c \in Arms, r \in Rewards : call_update_Q(c, r)

SpecBandit == BanditInit /\ [][BanditNext]_vars

\* values a long session comes to: near the least and the greatest it can hold
\* (Poor or Excellent on every arm, hundreds of times), and whole values
\* between them: -9.99, -9, 0, 19 and 19.99
Extremes ==
    {-999 * (Scale \div 100), -9 * Scale, 0, 19 * Scale, 1999 * (Scale \div 100)}

LateTables == [Arms -> Extremes]

\* update_Q on the table of a session that has long been in use.  Its entries
\* have two decimal places, so one update fewer than MaxUpdates is exact
LateInit ==
    /\ users = <<>>
    /\ files = [p \in Paths |-> NoFile]
    /\ now = 0
    /\ session_state = init_session_state
    /\ last = Event("init", Blank, <<>>, "")
    /\ reg_ok = {}
    /\ first_pw = <<>>
    /\ expected = [u \in Usernames |-> NoExpect]
    /\ bandit \in {[NoBandit EXCEPT !.Q = t, !.before = t, !.n = 1] : t \in LateTables}
    /\ steps = 0
    /\ widgets = init_widgets
    /\ gateway = NoRequest
    /\ call = NoCall

SpecLate == LateInit /\ [][\E c \in Arms, r \in Rewards : call_update_Q(c, r)]_vars

----------------------------------------------------------------------------
(* extract_code and execute_python_code called alone *)

Pieces == {" ", Fence, "a", "b"}

RawResponses == UNION {[1..n -> Pieces] : n \in 0..MaxResponse}

Statements ==
    {Statement("print", "", "out"), Statement("write", "", "warn"),
     Statement("syntax", "SyntaxError", "invalid syntax"),
     Statement("raise", "ValueError", "boom"),
     Statement("raise", "SystemExit", "3")}

Sources == UNION {[1..n -> Statements] : n \in 0..MaxProgram}

\* every variable of the session at its initial value, and one argument
CallInit(args) ==
    /\ users = <<>>
    /\ files = [p \in Paths |-> NoFile]
    /\ now = 0
    /\ session_state = init_session_state
    /\ last = Event("init", Blank, <<>>, "")
    /\ reg_ok = {}
    /\ first_pw = <<>>
    /\ expected = [u \in Usernames |-> NoExpect]
    /\ bandit = NoBandit
    /\ steps = 0
    /\ widgets = init_widgets
    /\ gateway = NoRequest
    /\ call \in {[NoCall EXCEPT !.arg = a] : a \in args}

call_extract_code ==
    /\ call.op = "none"
    /\ call' = [call EXCEPT !.op = "extract_code", !.out = extract_code(call.arg)]
    /\ UNCHANGED <<users, files, now, session_state, last, reg_ok, first_pw,
                   expected, bandit, steps, widgets, gateway>>

call_execute_python_code ==
    /\ call.op = "none"
    /\ call' = [call EXCEPT !.op = "execute_python_code",
                            !.out = execute_python_code(call.arg)]
    /\ UNCHANGED <<users, files, now, session_state, last, reg_ok, first_pw,
                   expected, bandit, steps, widgets, gateway>>

SpecParse == CallInit(RawResponses) /\ [][call_extract_code]_vars

SpecExecute == CallInit(Sources) /\ [][call_execute_python_code]_vars

----------------------------------------------------------------------------
(* init_db, statement by statement, on a credential store of any age.  main()
   calls it at the start of every run, so the runs of two browser sessions,
   which are threads of one server process, interleave between its
   statements.  user_db.sqlite is a record of its tables users and users_old;
   a table is its rows in rowid order, and created_at tells whether it has
   that column.  call.arg is the store before the first run, call.out.store
   what is committed, call.out.run where each session's run stands, and
   call.out.last how the run that ended last has ended. *)

Sessions == {1, 2}

NoTable == [exists |-> FALSE, created_at |-> FALSE, rows |-> <<>>]

\* CREATE TABLE users (id, username, password, created_at)
NewTable == [exists |-> TRUE, created_at |-> TRUE, rows |-> <<>>]

\* the rows registrations have left in a users table: ids are not reused
UserRows(created_at) ==
    LET row(id, username, password) ==
            IF created_at
            THEN [id |-> id, username |-> username, password |-> password,
                  created_at |-> 0]
            ELSE [id |-> id, username |-> username, password |-> password]
        hashes == {hash_password(p, <<"x">>) : p \in Passwords}
    IN  {<<>>} \cup {<<row(1, Alice, h)>> : h \in hashes}
               \cup {<<row(1, Alice, h), row(3, ASlashB, g)>> : h \in hashes, g \in hashes}

\* user_db.sqlite before init_db has ever run, as an older release left it,
\* and as this release leaves it
Stores ==
    {[users |-> NoTable, users_old |-> NoTable]}
    \cup UNION {{[users |-> [exists |-> TRUE, created_at |-> c, rows |-> r],
                   users_old |-> NoTable] : r \in UserRows(c)} : c \in BOOLEAN}

\* authenticate_user on the store db: its SELECT raises OperationalError, no
\* such table: users, on a store without the table
authenticate_user_in(db, username, password) ==
    LET rows == db.users.rows
        us == [u \in {rows[i].username : i \in 1..Len(rows)} |->
                  rows[CHOOSE i \in 1..Len(rows) : rows[i].username = u].password]
        r == authenticate_user(us, username, password)
    IN  IF db.users.exists
        THEN [success |-> r.success, message |-> r.message, raised |-> FALSE]
        ELSE [success |-> FALSE, message |-> "", raised |-> TRUE]

\* a session in which init_db does not run.  Of a run: users_data is what
\* fetchall() has returned, current_time the time read for created_at,
\* inserted the number of rows its open transaction has inserted (0: no
\* transaction is open), dropped whether the transaction has dropped
\* users_old, reading whether its cursor holds an unfinished SELECT,
\* seen_users_old whether its connection has read a schema with a table
\* users_old, and raised the message of the exception that ended it
NotRunning ==
    [pc |-> "idle", users_data |-> <<>>, current_time |-> 0, inserted |-> 0,
     dropped |-> FALSE, reading |-> FALSE, seen_users_old |-> FALSE,
     raised |-> ""]

Ended == {"idle", "returned", "raised", "killed"}

MigrateInit ==
    /\ users = <<>>
    /\ files = [p \in Paths |-> NoFile]
    /\ now = 0
    /\ session_state = init_session_state
    /\ last = Event("init", Blank, <<>>, "")
    /\ reg_ok = {}
    /\ first_pw = <<>>
    /\ expected = [u \in Usernames |-> NoExpect]
    /\ bandit = NoBandit
    /\ steps = 0
    /\ widgets = init_widgets
    /\ gateway = NoRequest
    /\ call \in {[op |-> "init_db", arg |-> db,
                  out |-> [store |-> db, run |-> [s \in Sessions |-> NotRunning],
                           last |-> "none"]] : db \in Stores}

\* what a statement of session s leaves: the committed store and s's run
Executes(s, db, state) ==
    /\ call' = [call EXCEPT !.out.store = db, !.out.run[s] = state,
                            !.out.last = IF state.pc \in Ended THEN state.pc ELSE @]
    /\ UNCHANGED <<users, files, now, session_state, last, reg_ok, first_pw,
                   expected, bandit, steps, widgets, gateway>>

\* the statement raises: the exception leaves init_db, and the connection
\* goes with it, which rolls back its open transaction
Raises(s, message) ==
    Executes(s, call.out.store,
              [NotRunning EXCEPT !.pc = "raised", !.raised = message])

\* another session's transaction holds the write lock of the store
WriteLocked(s) == \E o \in Sessions \ {s} : call.out.run[o].inserted > 0

\* another session's unfinished SELECT holds a read lock of the store
ReadLocked(s) == \E o \in Sessions \ {s} : call.out.run[o].reading

\* A statement that sqlite3 commits as it runs is compiled with the schema
\* its connection has read last, then waits for the write lock, then reads
\* the schema anew if it has changed, runs, and is committed, for which no
\* other session may hold a read lock.  A statement that finds the store
\* locked waits, and raises OperationalError when it has waited for the
\* timeout of sqlite3.connect (the step is the end of that wait; while it
\* waits the step is not taken)
\* main() calls init_db: os.makedirs and sqlite3.connect
init_db(s) ==
    /\ call.out.run[s].pc \in Ended
    /\ Step
    /\ call' = [call EXCEPT !.out.run[s] = [NotRunning EXCEPT !.pc = "table_exists"]]
    /\ UNCHANGED <<users, files, now, session_state, last, reg_ok, first_pw,
                   expected, bandit, widgets, gateway>>

\* SELECT name FROM sqlite_master WHERE type='table' AND name='users'
select_table_exists(s) ==
    LET me == call.out.run[s]
        db == call.out.store
    IN  /\ me.pc = "table_exists"
        /\ Executes(s, db, [me EXCEPT !.pc = IF db.users.exists THEN "created_at"
                                                ELSE "create"])

\* CREATE TABLE users, when the store had no users table
create_table(s) ==
    LET me == call.out.run[s]
        db == call.out.store
    IN  /\ me.pc = "create"
        /\ IF WriteLocked(s) THEN Raises(s, "database is locked")
           ELSE IF db.users.exists THEN Raises(s, "table users already exists")
           ELSE IF ReadLocked(s) THEN Raises(s, "database is locked")
           ELSE Executes(s, [db EXCEPT !.users = NewTable], [me EXCEPT !.pc = "commit"])

\* SELECT created_at FROM users LIMIT 1: an OperationalError, no such column
\* or no such table, is caught and starts the migration.  The row it finds is
\* never fetched, and the SELECT stays unfinished until conn.close()
select_created_at(s) ==
    LET me == call.out.run[s]
        db == call.out.store
    IN  /\ me.pc = "created_at"
        /\ IF db.users.exists /\ db.users.created_at
           THEN Executes(s, db, [me EXCEPT !.pc = "commit",
                                            !.reading = db.users.rows /= <<>>])
           ELSE Executes(s, db, [me EXCEPT !.pc = "users_data"])

\* SELECT id, username, password FROM users, and fetchall()
select_users_data(s) ==
    LET me == call.out.run[s]
        db == call.out.store
    IN  /\ me.pc = "users_data"
        /\ IF ~db.users.exists THEN Raises(s, "no such table: users")
           ELSE Executes(s, db,
                    [me EXCEPT !.pc = "rename",
                               !.seen_users_old = db.users_old.exists,
                               !.users_data =
                                   [i \in 1..Len(db.users.rows) |->
                                       [id |-> db.users.rows[i].id,
                                        username |-> db.users.rows[i].username,
                                        password |-> db.users.rows[i].password]]])

\* ALTER TABLE users RENAME TO users_old: a users_old in the schema that the
\* connection read with users_data is an error at once, whether or not the
\* table is still there
rename_table(s) ==
    LET me == call.out.run[s]
        db == call.out.store
    IN  /\ me.pc = "rename"
        /\ IF me.seen_users_old
           THEN Raises(s, "there is already another table or index with this name: users_old")
           ELSE IF WriteLocked(s) THEN Raises(s, "database is locked")
           ELSE IF ~db.users.exists THEN Raises(s, "no such table: users")
           ELSE IF db.users_old.exists
           THEN Raises(s, "there is already another table or index with this name: users_old")
           ELSE IF ReadLocked(s) THEN Raises(s, "database is locked")
           ELSE Executes(s, [users |-> NoTable, users_old |-> db.users],
                          [me EXCEPT !.pc = "create_new"])

\* CREATE TABLE users of the migration, and datetime.now() for created_at
create_new_table(s) ==
    LET me == call.out.run[s]
        db == call.out.store
    IN  /\ me.pc = "create_new"
        /\ IF WriteLocked(s) THEN Raises(s, "database is locked")
           ELSE IF db.users.exists THEN Raises(s, "table users already exists")
           ELSE IF ReadLocked(s) THEN Raises(s, "database is locked")
           ELSE Executes(s, [db EXCEPT !.users = NewTable],
                          [me EXCEPT !.pc = IF me.users_data = <<>> THEN "drop"
                                            ELSE "insert",
                                     !.current_time = strftime(now)])

\* INSERT INTO users (id, username, password, created_at), for one row of
\* users_data: the first opens the transaction
insert_user(s) ==
    LET me == call.out.run[s]
        db == call.out.store
        row == me.users_data[me.inserted + 1]
    IN  /\ me.pc = "insert"
        /\ IF WriteLocked(s) THEN Raises(s, "database is locked")
           ELSE IF ~db.users.exists THEN Raises(s, "no such table: users")
           ELSE IF ~db.users.created_at
           THEN Raises(s, "table users has no column named created_at")
           ELSE IF \E i \in 1..Len(db.users.rows) :
                       \/ db.users.rows[i].id = row.id
                       \/ db.users.rows[i].username = row.username
           THEN Raises(s, "UNIQUE constraint failed")
           ELSE Executes(s, db,
                    [me EXCEPT !.inserted = @ + 1,
                               !.pc = IF me.inserted + 1 = Len(me.users_data)
                                      THEN "drop" ELSE "insert"])

\* DROP TABLE users_old: part of the transaction when one is open, committed
\* as it runs when none is
drop_table(s) ==
    LET me == call.out.run[s]
        db == call.out.store
    IN  /\ me.pc = "drop"
        /\ IF me.inserted = 0 /\ WriteLocked(s) THEN Raises(s, "database is locked")
           ELSE IF ~db.users_old.exists THEN Raises(s, "no such table: users_old")
           ELSE IF me.inserted = 0 /\ ReadLocked(s) THEN Raises(s, "database is locked")
           ELSE IF me.inserted = 0
           THEN Executes(s, [db EXCEPT !.users_old = NoTable],
                          [me EXCEPT !.pc = "commit"])
           ELSE Executes(s, db, [me EXCEPT !.pc = "commit", !.dropped = TRUE])

\* conn.commit() and conn.close(): the open transaction is committed, which
\* needs the store to itself, and the unfinished SELECT is ended
commit_close(s) ==
    LET me == call.out.run[s]
        db == call.out.store
        copied == [i \in 1..me.inserted |->
                      [id |-> me.users_data[i].id,
                       username |-> me.users_data[i].username,
                       password |-> me.users_data[i].password,
                       created_at |-> me.current_time]]
    IN  /\ me.pc = "commit"
        /\ IF me.inserted > 0 /\ ReadLocked(s) THEN Raises(s, "database is locked")
           ELSE Executes(s,
                    [users |-> [db.users EXCEPT !.rows = @ \o copied],
                     users_old |-> IF me.dropped THEN NoTable ELSE db.users_old],
                    [NotRunning EXCEPT !.pc = "returned"])

\* the server process is killed: the runs of all its sessions end where they
\* are, and their open transactions are rolled back
kill ==
    /\ \E s \in Sessions : call.out.run[s].pc \notin Ended
    /\ call' = [call EXCEPT
                   !.out.run = [s \in Sessions |->
                                   IF call.out.run[s].pc \in Ended
                                   THEN call.out.run[s]
                                   ELSE [NotRunning EXCEPT !.pc = "killed"]],
                   !.out.last = "killed"]
    /\ UNCHANGED <<users, files, now, session_state, last, reg_ok, first_pw,
                   expected, bandit, steps, widgets, gateway>>

MigrateNext ==
    \/ kill
    \/ \E s \in Sessions :
          \/ init_db(s)
          \/ select_table_exists(s)
          \/ create_table(s)
          \/ select_created_at(s)
          \/ select_users_data(s)
          \/ rename_table(s)
          \/ create_new_table(s)
          \/ insert_user(s)
          \/ drop_table(s)
          \/ commit_close(s)

SpecMigrate == MigrateInit /\ [][MigrateNext]_vars

----------------------------------------------------------------------------
(* Two browser sessions on the same stores.  Streamlit runs each session's
   callbacks in a thread of its own, and every function opens its own
   connection: the sessions interleave between the statements that touch
   user_db.sqlite or a tenant store.  call.out holds, for each session, where
   its callback stands, the row it has inserted and not yet committed, and
   what it has returned or raised.  users holds the committed rows. *)

Idle == [pc |-> "idle", username |-> Blank, password |-> <<>>, row |-> <<>>,
         authenticated |-> FALSE, registered |-> "", raised |-> ""]

RaceInit ==
    /\ users = <<>>
    /\ files = [p \in Paths |-> NoFile]
    /\ now = 0
    /\ session_state = init_session_state
    /\ last = Event("init", Blank, <<>>, "")
    /\ reg_ok = {}
    /\ first_pw = <<>>
    /\ expected = [u \in Usernames |-> NoExpect]
    /\ bandit = NoBandit
    /\ steps = 0
    /\ widgets = init_widgets
    /\ gateway = NoRequest
    /\ call = [op |-> "sessions", arg |-> <<>>, out |-> [s \in Sessions |-> Idle]]

\* what a step of session s leaves of the variables: the stores and s's own state
Thread(s, us, fs, state) ==
    /\ users' = us
    /\ files' = fs
    /\ call' = [call EXCEPT !.out[s] = state]
    /\ UNCHANGED <<now, session_state, last, reg_ok, first_pw, expected, bandit,
                   steps, widgets, gateway>>

\* a session that has run its INSERT and not yet conn.commit() holds the
\* write lock of user_db.sqlite
Locked(s) == \E o \in Sessions \ {s} : call.out[o].pc = "commit"

\* register_callback and register_user up to the INSERT.  The INSERT of a
\* session that finds the store locked waits for the lock, and raises
\* OperationalError when it has waited for the timeout of sqlite3.connect
\* (the step is the end of that wait; while it waits the step is not taken).
\* On a username that is present it raises IntegrityError.
register_insert(s, username, password, salt) ==
    LET me == call.out[s]
        r == register_user(users, files, username, password, salt, 1)
    IN  /\ me.pc = "idle" /\ ~me.authenticated
        /\ IF Locked(s)
           THEN Thread(s, users, files,
                       [me EXCEPT !.username = username, !.password = password,
                                  !.registered = "Error: database is locked"])
           ELSE IF username \in DOMAIN users
           THEN Thread(s, users, files,
                       [me EXCEPT !.username = username, !.password = password,
                                  !.registered = r.message])
           ELSE Thread(s, users, files,
                       [me EXCEPT !.username = username, !.password = password,
                                  !.row = r.users[username], !.pc = "commit"])

\* register_user: conn.commit() makes the row visible and frees the lock
register_commit(s) ==
    LET me == call.out[s]
    IN  /\ me.pc = "commit"
        /\ Thread(s, [u \in DOMAIN users \cup {me.username} |->
                         IF u = me.username THEN me.row ELSE users[u]],
                  files, [me EXCEPT !.row = <<>>, !.pc = "connect"])

\* create_user_db, statement by statement: sqlite3.connect and the first
\* statement create the file, each CREATE TABLE is committed as it runs, and
\* the INSERT is committed by conn.commit(); then register_callback
\* authenticates the session
create_statement(s, pc, fault, next) ==
    LET me == call.out[s]
    IN  /\ me.pc = pc
        /\ Thread(s, users, create_user_db(files, me.username, fault).files,
                  IF next = "idle"
                  THEN [me EXCEPT !.pc = next, !.authenticated = TRUE,
                                  !.registered = "Registration successful!"]
                  ELSE [me EXCEPT !.pc = next])

\* login_callback up to authenticate_user's answer
login_authenticate(s, username, password) ==
    LET me == call.out[s]
        auth == authenticate_user(users, username, password)
    IN  /\ me.pc = "idle" /\ ~me.authenticated
        /\ Thread(s, users, files,
                  IF auth.success
                  THEN [me EXCEPT !.username = username, !.password = password,
                                  !.authenticated = TRUE, !.pc = "get_user_preferences"]
                  ELSE [me EXCEPT !.username = username, !.password = password])

\* login_callback: get_user_preferences(username)
login_get_user_preferences(s) ==
    LET me == call.out[s]
    IN  /\ me.pc = "get_user_preferences"
        /\ Thread(s, users, files,
                  IF get_user_preferences(files, me.username).raised
                  THEN [me EXCEPT !.pc = "idle", !.raised = "get_user_preferences"]
                  ELSE [me EXCEPT !.pc = "load_chat_history"])

\* login_callback: load_chat_history(username)
login_load_chat_history(s) ==
    LET me == call.out[s]
    IN  /\ me.pc = "load_chat_history"
        /\ Thread(s, users, files,
                  IF load_chat_history(files, me.username).raised
                  THEN [me EXCEPT !.pc = "idle", !.raised = "load_chat_history"]
                  ELSE [me EXCEPT !.pc = "idle"])

RaceNext ==
    \E s \in Sessions :
        \/ \E p \in Passwords, salt \in Salts : register_insert(s, Alice, p, salt)
        \/ register_commit(s)
        \/ create_statement(s, "connect", 2, "chat_history")
        \/ create_statement(s, "chat_history", 3, "user_preferences")
        \/ create_statement(s, "user_preferences", 4, "insert")
        \/ create_statement(s, "insert", 0, "idle")
        \/ \E p \in Passwords : login_authenticate(s, Alice, p)
        \/ login_get_user_preferences(s)
        \/ login_load_chat_history(s)

\* two sessions that register and log in with the same username
SpecRace == RaceInit /\ [][RaceNext]_vars

----------------------------------------------------------------------------
(* Specifications *)

\* the draws of a registration that is refused before its INSERT, or by it,
\* leave no trace: one of each is tried
Refused(u, p, c) == p /= c \/ u \in DOMAIN users

\* the two pages of one session
PageNext(U, F) ==
    \/ \E u \in U, p \in Passwords : login_callback(u, p)
    \/ \E u \in U, p \in Passwords, c \in Passwords :
          \E s \in (IF Refused(u, p, c) THEN {<<"x">>} ELSE Salts),
             f \in (IF Refused(u, p, c) THEN {0} ELSE F) :
                register_callback(u, p, c, s, f)
    \/ logout_callback
    \/ \E t \in Temperatures : set_temperature(t, NoEnv)
    \/ \E s \in Speeds : set_speed(s, NoEnv)
    \/ clear_history(NoEnv)
    \/ \E i \in Inputs, e \in Envs : generate_code(i, e.draw, e.pick)
    \/ \E e \in Answers : requests_post(e)
    \/ rerun(NoEnv)

\* the session, and the time that passes between its events and while its
\* runs wait
SessionNext(U, F) == PageNext(U, F) \/ Tick

\* the main page with its feedback buttons; time passes between the readings
\* of the clock
ReviewNext(U) ==
    \/ PageNext(U, {0})
    \/ \E c \in Categories : submit_feedback(c, NoEnv)

\* what the microphone or an uploaded file yields; "": nothing
Recognized == {"", "sum"}
Documents == {"", "doc"}

\* what the text area holds when "Generate Code" is clicked; "": nothing
Typed == {"", "add"}

\* the API answers within the tick of the request, with code or with an error
\* status; requests that raise, and slower answers, are tried by the other
\* specifications of the main page
Timely == {e \in Answers : e.ticks = 0 /\ e.outcome \in {"200", "500"}}

\* the slider is moved to its other position
Warmer == {9}

\* the main page with its feedback buttons and its auxiliary inputs.  The
\* "Generate Code" button is also clicked with an empty text area: the click
\* sends what an auxiliary input has left in the buffer
AuxNext(U) ==
    \/ \E u \in U, p \in Passwords : login_callback(u, p)
    \/ \E u \in U, p \in Passwords, s \in Salts : register_callback(u, p, p, s, 0)
    \/ logout_callback
    \/ \E t \in Warmer, e \in EnvsOf(widgets, "none", "", "") :
          set_temperature(t, e)
    \/ \E e \in EnvsOf(widgets, "clear", "", "") : clear_history(e)
    \/ \E i \in Typed :
          \E e \in EnvsOf(widgets, "generate", i, "") :
              generate_code(i, e.draw, e.pick)
    \/ \E e \in EnvsOf(widgets, "generate", "", "") : generate_from_buffer(e)
    \/ \E c \in Categories :
          \E e \in EnvsOf(widgets, c, "", "") : submit_feedback(c, e)
    \/ \E m \in InputMethods :
          \E e \in EnvsOf([widgets EXCEPT !.input_method = m, !.uploaded = ""],
                           "none", "", "") : set_input_method(m, e)
    \/ voice_input
    \/ \E r \in Recognized :
          \E e \in EnvsOf(widgets, "voice", "", r) : recognize_speech(r, e)
    \/ \E e \in Timely : requests_post(e)
    \/ \E d \in Documents :
          \E e \in EnvsOf([widgets EXCEPT !.uploaded = d], "none", "", "") :
              upload(d, e)
    \/ \E e \in EnvsOf(widgets, "none", "", "") : rerun(e)

\* TLC explores one class of usernames at a time.  Spec: an ordinary username
\* and one naming a file outside user_databases/, with storage faults.
Next == SessionNext({Alice, ASlashB}, Faults)

Spec == Init /\ [][Next]_vars

\* the same usernames, no storage fault
SpecPath == Init /\ [][SessionNext({Alice, ASlashB}, {0})]_vars

\* usernames naming the same file, no storage fault
SpecAlias == Init /\ [][SessionNext({Alice, DotAlice}, {0})]_vars

\* the empty username, no storage fault
SpecBlank == Init /\ [][SessionNext({Alice, Blank}, {0})]_vars

\* one username, storage faults while its store is created
SpecFault == Init /\ [][SessionNext({Alice}, Faults)]_vars

\* the rows earlier sessions of a user have left in chat_history, in rowid
\* order: none, one, or two saved in different seconds
StoredChats ==
    LET row(t, user_input) ==
            [timestamp |-> t, user_input |-> user_input,
             generated_code |-> <<Fence, "x = 1", Fence>>]
    IN  {<<>>, <<row(0, "add")>>, <<row(0, "add"), row(strftime(MaxClock), "sort")>>}

\* a later start of the application: alice is registered and her store holds
\* what her earlier sessions saved; the clock shows a later second
HistoryInit ==
    /\ users = [u \in {Alice} |-> hash_password(Secret1, <<"x">>)]
    /\ files \in {[p \in Paths |->
                      IF p = Resolve(user_db_path(Alice))
                      THEN [create_user_db([q \in Paths |-> NoFile], Alice, 0).files[p]
                               EXCEPT !.chat_history = rows]
                      ELSE NoFile] : rows \in StoredChats}
    /\ now = MaxClock
    /\ session_state = init_session_state
    /\ last = Event("init", Blank, <<>>, "")
    /\ reg_ok = {<<Alice, Secret1>>}
    /\ first_pw = [u \in {Alice} |-> Secret1]
    /\ expected = [u \in Usernames |-> NoExpect]
    /\ bandit = NoBandit
    /\ steps = 0
    /\ widgets = init_widgets
    /\ gateway = NoRequest
    /\ call = NoCall

HistoryNext ==
    \/ \E p \in Passwords : login_callback(Alice, p)
    \/ logout_callback
    \/ clear_history(NoEnv)
    \/ \E i \in Inputs, e \in Envs : generate_code(i, e.draw, e.pick)
    \/ \E e \in Answers : requests_post(e)
    \/ rerun(NoEnv)

\* one registered user with a stored chat history
SpecHistory == HistoryInit /\ [][HistoryNext]_vars

\* a password one character short of the six that register_callback asks for
TooShort == Rep("p", 5)

\* the authentication page, with passwords of either length in both fields
RegisterNext ==
    \/ \E u \in {Alice, ASlashB}, p \in Passwords : login_callback(u, p)
    \/ \E u \in {Alice, ASlashB}, p \in Passwords \cup {TooShort},
          c \in Passwords \cup {TooShort}, s \in Salts :
             register_callback(u, p, c, s, 0)
    \/ logout_callback

SpecRegister == Init /\ [][RegisterNext]_vars

\* the usernames of SpecPath, with the feedback buttons
SpecReview == Init /\ [][ReviewNext({Alice, ASlashB})]_vars

\* alice has just registered, in a new installation, and is on the main page
Registered ==
    LET r == register_user(<<>>, [p \in Paths |-> NoFile], Alice, Secret1, <<"x">>, 0)
    IN  [session_state |-> [init_session_state EXCEPT !.authenticated = TRUE,
                                                      !.username = Alice],
         users |-> r.users, files |-> r.files, gateway |-> NoRequest,
         last |-> Event("register", Alice, Secret1, r.message)]

\* and then she has chosen Voice and dictated a request, which the API has
\* refused, and has gone back to Text: her words are still in the buffer
Dictated ==
    LET w == [init_widgets EXCEPT !.input_method = "Voice"]
        heard == input_section(Registered.session_state, w, "voice", "sum")
        request == submit_request(heard, NoRequest, w, "voice", "", NoEnv)
        answer == submit_answer(request.session, Registered.files, request.gateway,
                                0, request.user_input,
                                CHOOSE e \in Timely : e.outcome = "500")
        ended == results_section(answer, "voice")
        back == results_section(
                    submit_nothing(input_section(ended.session, init_widgets,
                                                 "none", ""),
                                   ended.files, ended.gateway, 0), "none")
    IN  [session_state |-> back.session, users |-> Registered.users,
         files |-> back.files, gateway |-> back.gateway,
         last |-> Event("method", Alice, <<>>, "")]

AuxInit ==
    /\ \E at \in {Registered, Dictated} :
          /\ users = at.users
          /\ files = at.files
          /\ session_state = at.session_state
          /\ gateway = at.gateway
          /\ last = at.last
    /\ now = 0
    /\ reg_ok = {<<Alice, Secret1>>}
    /\ first_pw = [u \in {Alice} |-> Secret1]
    /\ expected = [u \in Usernames |-> NoExpect]
    /\ bandit = NoBandit
    /\ steps = 0
    /\ widgets = init_widgets
    /\ call = NoCall

\* one username, with the feedback buttons and the auxiliary inputs
SpecAux == AuxInit /\ [][AuxNext({Alice})]_vars

----------------------------------------------------------------------------
(* Claims about the credential store and the tenant stores *)

AlreadyExists == "Username already exists."

\* C1: authenticate(u, q) succeeds if and only if an earlier register(u, q)
\* returned success; a register call that returned a failure never makes a
\* later authenticate succeed.
C1_AuthenticateIffRegistered ==
    \A u \in Usernames, q \in Passwords :
        authenticate_user(users, u, q).success <=> <<u, q>> \in reg_ok

\* what is stored for a username is a hash of the password of its first
\* registration: never a plaintext, and the only password that authenticates
C2_Stored ==
    \A u \in DOMAIN users :
        /\ users[u] \notin Passwords
        /\ users[u] /= first_pw[u]
        /\ \A q \in Passwords :
              authenticate_user(users, u, q).success <=> q = first_pw[u]

\* a registration that reaches the credential store for a username that is
\* present changes nothing and answers AlreadyExists
C2_FailedCall ==
    (/\ steps' = steps + 1
     /\ last'.op = "register"
     /\ last'.user \in DOMAIN users
     /\ last'.result /= "Passwords do not match."
     /\ last'.result /= "Password must be at least 6 characters long.")
    => /\ last'.result = AlreadyExists
       /\ users' = users
       /\ files' = files
       /\ ~session_state'.authenticated

\* C2: registering a username that is present fails with AlreadyExists and
\* leaves the credential store and every tenant store as they were; the
\* password the credential was made from still authenticates, the failed
\* call's password does not (unless it is the same), and the stored value is
\* never a plaintext password.
C2_DuplicateRegister == []C2_Stored /\ [][C2_FailedCall]_vars

\* a second registration of a username, with another password, was refused
C2_Witness ==
    /\ last.op = "register"
    /\ last.result = AlreadyExists
    /\ last.user \in DOMAIN users
    /\ last.password /= first_pw[last.user]
    /\ \E p \in Paths : files[p].exists

\* C3: a tenant store exists for a username if and only if a credential for
\* that username exists.
C3_StoreIffCredential ==
    \A u \in Usernames :
        path_exists(files, user_db_path(u)) <=> u \in DOMAIN users

\* every tenant store holds exactly one Preferences row
C4_OneRow ==
    \A p \in Paths : files[p].exists => Len(files[p].user_preferences) = 1

\* a registration, the one caller of create_user_db, leaves every store that
\* exists as it was
C4_Idempotent ==
    \A p \in Paths :
        (files[p].exists /\ last'.op = "register" /\ steps' = steps + 1)
            => files'[p] = files[p]

\* C4: create on a store that exists leaves it unchanged, so every tenant
\* store holds exactly one Preferences row.
C4_CreateIdempotent == []C4_OneRow /\ [][C4_Idempotent]_vars

\* C5: the sliders an authenticated session had when logout was invoked are
\* what the next successful login of that user loads, with the favorite
\* language unchanged.
C5_RoundTrip ==
    (/\ last.op = "login"
     /\ last.result = "Login successful!"
     /\ expected[last.user].set)
    => /\ session_state.temperature = expected[last.user].temperature
       /\ session_state.speed = expected[last.user].speed
       /\ session_state.code_language = expected[last.user].favorite_language

\* C6: get_preferences never fails: it returns the stored row when there is
\* one and the defaults when the store, the table or the row is absent.
C6_GetPreferencesTotal ==
    \A u \in Usernames :
        LET got == get_user_preferences(files, u)
            path == user_db_path(u)
        IN  /\ ~got.raised
            /\ IF path_exists(files, path)
                   /\ files[Resolve(path)].user_preferences /= <<>>
               THEN /\ got.preferences.temperature =
                          files[Resolve(path)].user_preferences[1].temperature
                    /\ got.preferences.speed =
                          files[Resolve(path)].user_preferences[1].speed
               ELSE got.preferences = [temperature |-> 7, speed |-> 5,
                                       favorite_language |-> "python"]

\* C7: load_recent_chat returns no entry when the store does not exist, and
\* otherwise the min(n, 10) most recently appended entries, newest first.
C7_MostRecentFirst ==
    \A u \in Usernames :
        LET loaded == load_chat_history(files, u)
            path == user_db_path(u)
            appended == files[Resolve(path)].chat_history
            n == Len(appended)
            k == IF n < 10 THEN n ELSE 10
        IN  /\ ~loaded.raised
            /\ IF path_exists(files, path)
               THEN loaded.history = [i \in 1..k |-> appended[n + 1 - i]]
               ELSE loaded.history = <<>>

\* what the reads return for a username
TenantView(fs, u) ==
    [chat |-> load_chat_history(fs, u), preferences |-> get_user_preferences(fs, u)]

\* one step leaves what every registered username other than the acting one
\* reads as it was
C8_Frame ==
    \A v \in DOMAIN users :
        (steps' = steps + 1 /\ v /= last'.user)
            => TenantView(files', v) = TenantView(files, v)

\* C8: an operation performed for one username leaves the chat history and
\* the Preferences of every other registered username unchanged.
C8_TenantIsolation == [][C8_Frame]_vars

----------------------------------------------------------------------------
(* Claims about the bandit policy *)

\* C9: with epsilon = 0 get_action returns the lowest index holding the
\* maximum of the table (0 on the all-zero table), and for every epsilon the
\* index it returns is one of the num_actions arms.
C9_SelectAction ==
    bandit.op = "get_action" =>
        /\ bandit.out \in 0..(num_actions - 1)
        /\ bandit.epsilon = 0 =>
              /\ \A j \in Arms : bandit.before[j] <= bandit.before[bandit.out]
              /\ \A j \in Arms : j < bandit.out =>
                                    bandit.before[j] < bandit.before[bandit.out]
              /\ bandit.before = [i \in Arms |-> 0] => bandit.out = 0

\* a greedy call on a table whose maximum is held by two arms, the lower
\* of which is not arm 0
C9_Witness ==
    /\ bandit.op = "get_action"
    /\ bandit.epsilon = 0
    /\ bandit.out = 1
    /\ \E j \in Arms : j > 1 /\ bandit.before[j] = bandit.before[1]

\* C10: update_Q changes entry c alone, to V[c] + 0.1 * (r + 0.9 * max(V) - V[c])
\* with the maximum taken before the update; on the all-zero table the new
\* entry is 0.1 * r.
C10_Update ==
    bandit.op = "update_Q" =>
        /\ 100 * (bandit.Q[bandit.c] - bandit.before[bandit.c]) =
              10 * bandit.r * Scale
              + 9 * (CHOOSE m \in {bandit.before[i] : i \in Arms} :
                        \A i \in Arms : bandit.before[i] <= m)
              - 10 * bandit.before[bandit.c]
        /\ \A i \in Arms : i /= bandit.c => bandit.Q[i] = bandit.before[i]
        /\ bandit.before = [i \in Arms |-> 0] =>
              10 * bandit.Q[bandit.c] = bandit.r * Scale

\* a second update, with reward 2, of the arm that holds a positive maximum
C10_Witness ==
    /\ bandit.op = "update_Q"
    /\ bandit.n = 2
    /\ bandit.r = 2
    /\ bandit.before[bandit.c] > 0
    /\ \A i \in Arms : bandit.before[i] <= bandit.before[bandit.c]
    /\ bandit.Q[bandit.c] > bandit.before[bandit.c]

----------------------------------------------------------------------------
(* Claims about the main page *)

\* one more operation has run: a callback, or a run of main() to its end
Acted == steps' = steps + 1

\* the state in which the operation that a step ends began: the state of the
\* step, unless its run has waited for a call to return
Start ==
    IF call.op \in {"requests.post", "recognize_speech"} THEN call.arg.start
    ELSE Beginning

\* the greatest entry of a table
Greatest(Q) == CHOOSE m \in {Q[i] : i \in Arms} : \A i \in Arms : Q[i] <= m

\* Q2 is Q after one update of entry a with reward r
UpdatedBy(Q, Q2, a, r) ==
    /\ 100 * (Q2[a] - Q[a]) = 10 * r * Scale + 9 * Greatest(Q) - 10 * Q[a]
    /\ \A i \in Arms : i /= a => Q2[i] = Q[i]

\* a feedback click applies one update, with the reward of its button, to the
\* arm of the last prompt sent
C11_Step ==
    (Acted /\ last'.op = "feedback") =>
        \E r \in {-1, 0, 1, 2} :
            /\ r = -1 <=> last'.result = "Poor"
            /\ r = 0 <=> last'.result = "Neutral"
            /\ r = 1 <=> last'.result = "Good"
            /\ r = 2 <=> last'.result = "Excellent"
            /\ UpdatedBy(Start.session_state.Q_table, session_state'.Q_table,
                         gateway'.arm, r)

\* C11: each feedback submission applies exactly one bandit update, with
\* reward Poor = -1, Neutral = 0, Good = 1, Excellent = 2, to the arm selected
\* by the most recent submit_request; a repeated click is a further update.
C11_FeedbackUpdate == [][C11_Step]_vars

\* a second feedback, Excellent, on code generated with an explored arm
C11_Witness ==
    /\ last.op = "feedback"
    /\ last.result = "Excellent"
    /\ bandit.n = 2
    /\ gateway.arm /= 0
    /\ session_state.Q_table[gateway.arm] > bandit.before[gateway.arm]
    /\ bandit.before[gateway.arm] /= 0

\* an Excellent click raises the entry of the arm whose prompt produced the
\* code under review, when no entry of the table is negative
C12_Step ==
    (/\ Acted
     /\ last'.op = "feedback"
     /\ last'.result = "Excellent"
     /\ Greatest(Start.session_state.Q_table) >= 0)
    => session_state'.Q_table[gateway'.artifact_arm] >
           Start.session_state.Q_table[gateway'.artifact_arm]

\* C12: in every table a session reaches, Excellent feedback strictly
\* increases the value of the arm used in the generation being reviewed
\* whenever the maximum of the table is not negative.
C12_ExcellentIncreases == [][C12_Step]_vars

\* a generation the API did not answer with 200 changes nothing
C13_Step ==
    (Acted /\ last'.op = "generate" /\ last'.result \in {"500", "exception"}) =>
        /\ session_state'.Q_table = Start.session_state.Q_table
        /\ session_state'.last_action_idx = Start.session_state.last_action_idx
        /\ session_state'.chat_history = Start.session_state.chat_history
        /\ files' = Start.files

\* C13: a failed generation leaves the value table, the last chosen arm, the
\* in-memory chat history and the tenant store's chat history as they were.
C13_FailedGeneration == [][C13_Step]_vars

\* a generation the API answered with 200 adds one pair of messages to the
\* session's history and one row to the chat_history table of its user
C14_Step ==
    (Acted /\ last'.op = "generate" /\ last'.result \in {"200", "save raised"}) =>
        LET p == Resolve(user_db_path(session_state.username))
            history == Start.session_state.chat_history
            rows == Start.files[p].chat_history
        IN  /\ Len(session_state'.chat_history) = Len(history) + 2
            /\ SubSeq(session_state'.chat_history, 1, Len(history)) = history
            /\ Openable(user_db_path(session_state.username))
            /\ Len(files'[p].chat_history) = Len(rows) + 1
            /\ SubSeq(files'[p].chat_history, 1, Len(rows)) = rows

\* C14: each successful generation appends one pair to the in-memory history
\* and one ChatEntry to the user's tenant store, both or neither.
C14_AppendTogether == [][C14_Step]_vars

\* a feedback click needs generated code and changes the table and the
\* feedback counters only; nothing else but a logout changes the table
C15_Step ==
    Acted =>
        /\ last'.op = "feedback" =>
              /\ Start.session_state.generated_code /= <<>>
              /\ session_state' =
                    [Start.session_state EXCEPT
                        !.Q_table = session_state'.Q_table,
                        !.feedback_score = session_state'.feedback_score,
                        !.feedback_submitted = session_state'.feedback_submitted]
              /\ files' = Start.files
              /\ users' = users
        /\ session_state'.Q_table /= Start.session_state.Q_table =>
              last'.op \in {"feedback", "logout"}

\* C15: submit_feedback is enabled only when generated code of the current
\* session is present, changes only the bandit table and the feedback
\* counters, and only it and logout change the bandit table.
C15_FeedbackFrame == [][C15_Step]_vars

\* a logout leaves the session as it was created, session id apart
C16_Step ==
    (Acted /\ last'.op = "logout") =>
        /\ ~session_state'.authenticated
        /\ session_state'.username = <<"">>
        /\ session_state'.chat_history = <<>>
        /\ session_state'.generated_code = <<>>
        /\ session_state'.feedback_score = 0
        /\ session_state'.Q_table = [i \in Arms |-> 0]
        /\ session_state'.temperature = 7
        /\ session_state'.speed = 5
        /\ session_state'.session_id = session_state.session_id

\* C16: logout returns the session to Unauthenticated with every piece of
\* session state at its initial value and the session identifier unchanged.
C16_LogoutResets == [][C16_Step]_vars

\* an authenticated session is the session of a registered username
C17_Registered ==
    session_state.authenticated => session_state.username \in DOMAIN users

\* nothing of the cycle happens in an unauthenticated session, a session is
\* entered by a successful authenticate or register only, and what an
\* authenticated session writes goes to the store of its username
C17_Step ==
    /\ ~session_state.authenticated =>
          /\ gateway' = gateway
          /\ session_state'.Q_table = session_state.Q_table
          /\ call'.op = call.op
          /\ \A p \in Paths :
                /\ files'[p].chat_history = files[p].chat_history
                /\ \A i \in 1..Len(files[p].user_preferences) :
                      files'[p].user_preferences[i] = files[p].user_preferences[i]
    /\ (~session_state.authenticated /\ session_state'.authenticated) =>
          /\ Acted
          /\ session_state'.username = last'.user
          /\ \/ /\ last'.op = "login"
                /\ last'.user \in DOMAIN users
                /\ last'.password = first_pw[last'.user]
             \/ /\ last'.op = "register"
                /\ last'.result = "Registration successful!"
                /\ last'.user \notin DOMAIN users
                /\ last'.user \in DOMAIN users'
    /\ session_state.authenticated =>
          \A p \in Paths :
              p /= Resolve(user_db_path(session_state.username))
                  => files'[p] = files[p]

\* C17: the credential store gates the cycle: no request, chat append,
\* feedback update or preferences write while unauthenticated; the session is
\* entered only by a successful authenticate or register; its username is in
\* the credential store and is the tenant its writes target.
C17_Gate == []C17_Registered /\ [][C17_Step]_vars

\* a session whose request was answered and saved, while another username
\* holds a credential
C17_Witness ==
    /\ session_state.authenticated
    /\ last.op = "generate"
    /\ last.result = "200"
    /\ gateway.requests > 0
    /\ \E u \in DOMAIN users : u /= session_state.username
    /\ files[Resolve(user_db_path(session_state.username))].chat_history /= <<>>

\* C18 as stated: an auxiliary input sends no request, selects no arm and
\* appends no chat entry.
C18_Step ==
    (Acted /\ last'.op \in {"voice", "upload"}) =>
        /\ gateway' = Start.gateway
        /\ session_state'.last_action_idx = Start.session_state.last_action_idx
        /\ session_state'.chat_history = Start.session_state.chat_history
        /\ files' = Start.files

\* C18: auxiliary inputs only fill the pending buffer: no generation request,
\* arm selection or chat entry until a separate submit_request.
C18_AuxiliaryOnlyBuffers == [][C18_Step]_vars

\* an auxiliary input that yields text is sent to the API by the run that
\* receives it, with the arm chosen for it; one that yields none does nothing
C18_AmendedStep ==
    (Acted /\ last'.op \in {"voice", "upload"}) =>
        IF session_state'.input_text_buffer = Start.session_state.input_text_buffer
           /\ last'.result = ""
        THEN /\ gateway' = Start.gateway
             /\ session_state'.chat_history = Start.session_state.chat_history
             /\ files' = Start.files
        ELSE /\ session_state'.input_text_buffer /= ""
             /\ gateway'.requests = Start.gateway.requests + 1
             /\ gateway'.user_input = session_state'.input_text_buffer
             /\ session_state'.last_action_idx = gateway'.arm
             /\ ~session_state'.auto_submit

\* C18 as amended: auxiliary inputs fill the pending buffer, and an input
\* that yields text is submitted by the same run, without a separate
\* submit_request: one request is sent with the buffered text.
C18_AuxiliarySubmits == [][C18_AmendedStep]_vars

\* recognized speech was sent and answered
C18_Witness ==
    /\ last.op = "voice"
    /\ last.result = "200"
    /\ gateway.user_input = "Generate code for: sum"
    /\ session_state.generated_code /= <<>>

----------------------------------------------------------------------------
(* Claims about code execution and response parsing *)

\* C19: execute_python_code never lets an exception of the executed source
\* reach its caller: it returns with execution_successful false and the
\* exception's message at the end of stderr exactly when the source raised.
C19_ExecuteNeverPropagates ==
    call.op = "execute_python_code" =>
        LET code == call.arg
            raises == \E i \in 1..Len(code) : code[i].kind \in {"raise", "syntax"}
        IN  /\ call.out.propagated = ""
            /\ call.out.execution_successful <=> ~raises
            /\ raises =>
                  /\ call.out.stderr_output /= <<>>
                  /\ \E i \in 1..Len(code) :
                        call.out.stderr_output[Len(call.out.stderr_output)] =
                            "Error: " \o code[i].arg

\* the positions of the fences in a text
FencesOf(text) == {i \in 1..Len(text) : text[i] = Fence}

\* the least member of a non-empty set of positions
Least(S) == CHOOSE i \in S : \A j \in S : i <= j

\* the text of a response without the white space at its ends
Trimmed(text) ==
    LET inked == {i \in 1..Len(text) : text[i] /= " "}
    IN  IF inked = {} THEN <<>>
        ELSE SubSeq(text, Least(inked), CHOOSE i \in inked : \A j \in inked : j <= i)

\* what stands between the first fence of a trimmed text and its second
\* fence, or its end when it has one fence only
FirstBlock(text) ==
    LET f == FencesOf(text)
        first == Least(f)
        rest == f \ {first}
    IN  SubSeq(text, first + 1, IF rest = {} THEN Len(text) ELSE Least(rest) - 1)

\* C20 as stated: the artifact of a response with a fenced block is the
\* contents of the first block without the delimiters, and the trimmed
\* response when there is no delimiter.
C20_FirstBlockContents ==
    call.op = "extract_code" =>
        LET text == Trimmed(call.arg)
        IN  IF Cardinality(FencesOf(text)) >= 2
            THEN call.out = FirstBlock(text)
            ELSE FencesOf(text) = {} => call.out = text

\* C20 as amended: the artifact of a response with a delimiter is the first
\* block (up to the second delimiter, or to the end of the trimmed response)
\* between a pair of delimiters, and the trimmed response when there is no
\* delimiter.
C20_FirstBlockFenced ==
    call.op = "extract_code" =>
        LET text == Trimmed(call.arg)
        IN  IF FencesOf(text) /= {}
            THEN call.out = <<Fence>> \o FirstBlock(text) \o <<Fence>>
            ELSE call.out = text

\* a response with text before its one block
C20_Witness ==
    /\ call.op = "extract_code"
    /\ call.arg = <<"a", Fence, "b", Fence>>
    /\ call.out = <<Fence, "b", Fence>>

----------------------------------------------------------------------------
(* Claims about the schema of the credential store *)

\* the (id, username, password_hash) rows of a users table
Credentials(table) ==
    [i \in 1..Len(table.rows) |->
        <<table.rows[i].id, table.rows[i].username, table.rows[i].password>>]

\* C21: init_db on a store whose users table lacks created_at yields the same
\* (id, username, password_hash) rows, each with a created_at value, so every
\* registered user still authenticates; init_db on an up-to-date store
\* changes nothing; and after an interrupted init_db and a re-run no
\* credential row is lost.
C21_Migration ==
    (/\ call.op = "init_db"
     /\ \A s \in Sessions : call.out.run[s].pc \in Ended
     /\ call.out.last = "returned") =>
        /\ call.out.store.users.exists
        /\ call.out.store.users.created_at
        /\ Credentials(call.out.store.users) = Credentials(call.arg.users)
        /\ \A i \in 1..Len(call.out.store.users.rows) :
              call.out.store.users.rows[i].created_at >= 0
        /\ \A u \in Usernames, q \in Passwords :
              /\ ~authenticate_user_in(call.out.store, u, q).raised
              /\ authenticate_user_in(call.arg, u, q).success
                    <=> authenticate_user_in(call.out.store, u, q).success
        /\ call.arg.users.created_at => call.out.store = call.arg

----------------------------------------------------------------------------
(* Further claims about the bandit policy *)

Abs(x) == IF x < 0 THEN -x ELSE x

\* ten times the distance between entry c of Q and 0.9 times the maximum of T
Distance10(Q, c, T) == Abs(10 * Q[c] - 9 * Greatest(T))

\* C22: an update with reward 0 does not increase the distance between the
\* chosen arm's value and 0.9 * max(V), the maximum taken before the update:
\* it multiplies it by 0.9.  The distance to 0.9 times the maximum of the
\* updated table is at most 0.99 times the distance before, so along a
\* sequence of such updates it shrinks to zero.
C22_Contraction ==
    (bandit.op = "update_Q" /\ bandit.r = 0) =>
        /\ 10 * Distance10(bandit.Q, bandit.c, bandit.before) =
              9 * Distance10(bandit.before, bandit.c, bandit.before)
        /\ 100 * Distance10(bandit.Q, bandit.c, bandit.Q) <=
              99 * Distance10(bandit.before, bandit.c, bandit.before)
        /\ \A i \in Arms : i /= bandit.c => bandit.Q[i] = bandit.before[i]

\* the second of two updates with reward 0 of an arm below the maximum: its
\* value was 0.09 and comes closer to 0.9
C22_Witness ==
    /\ bandit.op = "update_Q"
    /\ bandit.r = 0
    /\ bandit.n = 2
    /\ Greatest(bandit.before) = Scale
    /\ 100 * bandit.before[bandit.c] = 9 * Scale
    /\ bandit.Q[bandit.c] > bandit.before[bandit.c]
    /\ 10 * bandit.Q[bandit.c] < 9 * Scale

----------------------------------------------------------------------------
(* Further claims about the authentication page *)

NotFound == "Username not found."
WrongPassword == "Incorrect password."

\* a login answers NotFound for a username without a credential and
\* WrongPassword for a password that is not the one its credential was made
\* from, and then changes the error message only
C23_Step ==
    (Acted /\ last'.op = "login") =>
        /\ last'.result = NotFound <=> last'.user \notin DOMAIN users
        /\ last'.result = WrongPassword <=>
              /\ last'.user \in DOMAIN users
              /\ last'.password /= first_pw[last'.user]
        /\ last'.result \in {NotFound, WrongPassword} =>
              /\ ~session_state'.authenticated
              /\ session_state' = [session_state EXCEPT !.login_error = last'.result]
              /\ users' = users
              /\ files' = files

\* C23: authenticate returns NotFound exactly when no credential exists for
\* the username and WrongPassword exactly when one exists and the password
\* does not verify; a failed login leaves the session unauthenticated, with
\* its username, preferences, chat history and bandit table unchanged, and
\* records the error message only.
C23_FailedLogin == [][C23_Step]_vars

\* the user of an earlier session is refused with a wrong password
C23_Witness ==
    /\ last.op = "login"
    /\ last.result = WrongPassword
    /\ expected[last.user].set
    /\ session_state.login_error = WrongPassword
    /\ ~session_state.authenticated

----------------------------------------------------------------------------
(* Further claims about the main page *)

\* C24: the last chosen arm is an index of one of the prompt templates, of
\* which there are 4, and of the value table, which has as many entries, in
\* every state of the session: before any generation, after a logout, and
\* whenever a reward is applied; the prompt of a request is made from the
\* template of the arm recorded for it.
C24_ValidArm ==
    /\ Len(actions) = 4
    /\ num_actions = Len(actions)
    /\ session_state.last_action_idx + 1 \in DOMAIN actions
    /\ DOMAIN session_state.Q_table = 0..(Len(actions) - 1)
    /\ bandit.op = "update_Q" =>
          /\ bandit.c + 1 \in DOMAIN actions
          /\ DOMAIN bandit.Q = 0..(Len(actions) - 1)
    /\ gateway.requests > 0 =>
          /\ gateway.arm + 1 \in DOMAIN actions
          /\ gateway.prompt = format(actions[gateway.arm + 1], gateway.user_input)

\* a "Generate Code" click with an empty text area has sent the dictated
\* words with the last template, chosen by exploration, and a reward was
\* applied to it
C24_Witness ==
    /\ last.op = "feedback"
    /\ bandit.op = "update_Q"
    /\ bandit.c = 3
    /\ session_state.last_action_idx = 3
    /\ session_state.Q_table[3] /= 0
    /\ widgets.input_method = "Text"
    /\ gateway.requests = 2
    /\ gateway.prompt = "Generate optimized code for: Generate code for: sum"

\* C25: the chat history shown is capped to 10 messages, the most recent of
\* the session's history, newest first: after a login that loads stored
\* entries and after the generations that follow it.
C25_NewestFirst ==
    session_state.authenticated =>
        LET history == session_state.chat_history
            shown == chat_container(history)
        IN  /\ Len(shown) = IF Len(history) < 10 THEN Len(history) ELSE 10
            /\ \A i \in 1..Len(shown) : \E j \in 1..Len(history) : shown[i] = history[j]
            /\ \A i \in 1..(Len(shown) - 1) :
                  shown[i].timestamp >= shown[i + 1].timestamp
            /\ Len(history) <= 10 =>
                  \A j \in 1..Len(history) : \E i \in 1..Len(shown) : shown[i] = history[j]

----------------------------------------------------------------------------
(* Claims about concurrent sessions *)

\* C26: when two sessions register the same username concurrently, one
\* register call succeeds and the other fails with AlreadyExists; once both
\* are done the credential store holds one credential for the username and
\* its tenant store one default Preferences row; and no session that
\* authenticated as that user meets an error of get_preferences or
\* load_recent_chat.
C26_ConcurrentRegister ==
    LET done == {s \in Sessions : call.out[s].registered /= ""}
        won == {s \in done : call.out[s].registered = "Registration successful!"}
        p == Resolve(user_db_path(Alice))
    IN  call.op = "sessions" =>
            /\ Cardinality(won) <= 1
            /\ \A s \in done \ won : call.out[s].registered = AlreadyExists
            /\ done = Sessions =>
                  /\ Cardinality(won) = 1
                  /\ DOMAIN users = {Alice}
                  /\ Len(files[p].user_preferences) = 1
                  /\ files[p].user_preferences[1] =
                        [id |-> 1, temperature |-> 7, speed |-> 5,
                         favorite_language |-> "python"]
            /\ \A s \in Sessions :
                  call.out[s].authenticated => call.out[s].raised = ""

----------------------------------------------------------------------------
(* Claims about the range of the bandit values *)

\* C27: whatever feedback is submitted, with rewards -1, 0, 1 and 2, every
\* entry of the value table stays within -10 <= V[i] < 20.
C27_Bounded ==
    \A i \in 0..3 :
        /\ -10 * Scale <= bandit.Q[i]
        /\ bandit.Q[i] < 20 * Scale

\* Excellent on an arm at 19.99, as are the others: it rises, below 20
C27_Witness ==
    /\ bandit.op = "update_Q"
    /\ bandit.r = 2
    /\ \A i \in Arms : 100 * bandit.before[i] = 1999 * Scale
    /\ bandit.Q[bandit.c] > bandit.before[bandit.c]
    /\ bandit.Q[bandit.c] < 20 * Scale

----------------------------------------------------------------------------
(* Claims about reruns and counters of the main page *)

\* the run that a user action's st.rerun() starts sends no request and asks
\* for no further run
C28_Step ==
    (Acted /\ last'.op = "rerun") =>
        /\ gateway' = Start.gateway
        /\ ~widgets'.rerun

\* when a run has ended, both flags are down
C28_FlagsDown ==
    (session_state.authenticated /\ call.op = "none") =>
        ~session_state.needs_rerun /\ ~session_state.auto_submit

\* C28: one user action causes finitely many reruns: after it needs_rerun and
\* auto_submit are both false, the rerun it asked for issues no further
\* generation request and asks for no rerun, and the session waits for the
\* next user action.
C28_Quiescence == []C28_FlagsDown /\ [][C28_Step]_vars

\* C29: when a run of the main page has ended, the feedback score on the
\* screen is the sum of the rewards of the feedback submissions applied to
\* the bandit table since the session started or since the last logout.
C29_DisplayedScore ==
    (session_state.authenticated /\ call.op = "none") =>
        widgets.metric = bandit.applied

----------------------------------------------------------------------------
(* Claims about the registration form *)

Mismatch == "Passwords do not match."
ShortPassword == "Password must be at least 6 characters long."

\* a registration whose fields differ or whose password has fewer than 6
\* characters changes the registration error message and nothing else
C30_Step ==
    \A u \in Usernames, p \in Passwords \cup {TooShort},
       c \in Passwords \cup {TooShort}, s \in Salts :
        (register_callback(u, p, c, s, 0) /\ (p /= c \/ Len(p) < 6)) =>
            /\ users' = users
            /\ files' = files
            /\ ~session_state'.authenticated
            /\ session_state'.register_error =
                  IF p /= c THEN Mismatch ELSE ShortPassword
            /\ session_state' =
                  [session_state EXCEPT
                      !.register_error = session_state'.register_error]

\* C30: a registration attempt whose password and confirmation differ, or
\* whose password is shorter than 6 characters, is rejected before the
\* credential store is touched: no credential and no tenant store is
\* created, the session stays unauthenticated, and only the registration
\* error message changes.
C30_RejectedEarly == [][C30_Step]_vars

\* a five-character password is refused for a new username while another
\* username holds a credential
C30_Witness ==
    /\ last.op = "register"
    /\ last.result = ShortPassword
    /\ Len(last.password) = 5
    /\ last.user \notin DOMAIN users
    /\ users /= <<>>
    /\ ~session_state.authenticated
    /\ session_state.register_error = ShortPassword
    /\ ~path_exists(files, user_db_path(last.user))

====
